---- MODULE Spec2Model ----
(***************************************************************************)
(* The resilient scraping error-handling layer of hexagram_news:           *)
(* classifyError, CircuitBreaker, ScrapingError, retryWithBackoff and      *)
(* ScrapingErrorHandler (wrap, wrapBatch, resetCircuitBreaker), together   *)
(* with the drivers of scripts/test-error-handler.mjs.                     *)
(*                                                                         *)
(* A JavaScript string is a sequence of one-character strings, so that     *)
(* toLowerCase, includes and trim are computed as the engine computes them.*)
(***************************************************************************)
EXTENDS Integers, Sequences, FiniteSets, TLC

\* ---------------------------------------------------------------- strings

UpperChars == <<"A","B","C","D","E","F","G","H","I","J","K","L","M","N","O","P","Q","R","S","T","U","V","W","X","Y","Z">>

LowerChars == <<"a","b","c","d","e","f","g","h","i","j","k","l","m","n","o","p","q","r","s","t","u","v","w","x","y","z">>

\* One character of String.prototype.toLowerCase.
LowerChar(c) ==
  IF \E i \in 1..26 : UpperChars[i] = c
  THEN LowerChars[CHOOSE i \in 1..26 : UpperChars[i] = c]
  ELSE c

\* String.prototype.toLowerCase
toLowerCase(s) == [i \in 1..Len(s) |-> LowerChar(s[i])]

\* String.prototype.includes
includes(s, sub) ==
  \E i \in 0..(Len(s) - Len(sub)) : SubSeq(s, i + 1, i + Len(sub)) = sub

WhiteSpace == {" ", "\t", "\n", "\r"}

RECURSIVE trimStart(_)
trimStart(s) ==
  IF s # <<>> /\ Head(s) \in WhiteSpace THEN trimStart(Tail(s)) ELSE s

RECURSIVE trimEnd(_)
trimEnd(s) ==
  IF s # <<>> /\ s[Len(s)] \in WhiteSpace
  THEN trimEnd(SubSeq(s, 1, Len(s) - 1))
  ELSE s

\* String.prototype.trim
trim(s) == trimEnd(trimStart(s))

Digits == <<"0","1","2","3","4","5","6","7","8","9">>

\* The decimal text a template literal gives a non-negative integer.
RECURSIVE NumToStr(_)
NumToStr(n) ==
  IF n < 10 THEN <<Digits[n + 1]>>
  ELSE NumToStr(n \div 10) \o <<Digits[(n % 10) + 1]>>

\* ------------------------------------------------------- JavaScript values

\* A value of a field that the classifier reads: t is its typeof tag, s its
\* text when it is a string, n its value when it is a number.
Undef == [t |-> "undefined", s |-> <<>>, n |-> 0]

Null == [t |-> "null", s |-> <<>>, n |-> 0]

Str(s) == [t |-> "string", s |-> s, n |-> 0]

Num(n) == [t |-> "number", s |-> <<>>, n |-> n]

\* ToBoolean
Truthy(v) ==
  CASE v.t = "undefined" -> FALSE
    [] v.t = "null" -> FALSE
    [] v.t = "string" -> v.s # <<>>
    [] v.t = "number" -> v.n # 0
    [] OTHER -> TRUE

\* ------------------------------------------------------------- constants

ErrorTypes ==
  {"http_error", "paywall", "javascript_required", "network_error", "dns_error",
   "timeout", "parsing_error", "rate_limited", "unknown"}

\* HTTP_ERROR_CODES[status] || 'Unknown'
HTTP_ERROR_CODES(status) ==
  CASE status = 400 -> <<"B","a","d"," ","R","e","q","u","e","s","t">>
    [] status = 401 -> <<"U","n","a","u","t","h","o","r","i","z","e","d">>
    [] status = 403 -> <<"F","o","r","b","i","d","d","e","n">>
    [] status = 404 -> <<"N","o","t"," ","F","o","u","n","d">>
    [] status = 429 -> <<"R","a","t","e"," ","L","i","m","i","t","e","d">>
    [] status = 500 -> <<"I","n","t","e","r","n","a","l"," ","S","e","r","v","e","r"," ","E","r","r","o","r">>
    [] status = 502 -> <<"B","a","d"," ","G","a","t","e","w","a","y">>
    [] status = 503 -> <<"S","e","r","v","i","c","e"," ","U","n","a","v","a","i","l","a","b","l","e">>
    [] status = 504 -> <<"G","a","t","e","w","a","y"," ","T","i","m","e","o","u","t">>
    [] OTHER -> <<"U","n","k","n","o","w","n">>

PAYWALL_INDICATORS ==
  { <<"s","u","b","s","c","r","i","b","e">>,
    <<"s","u","b","s","c","r","i","p","t","i","o","n">>,
    <<"p","a","y","w","a","l","l">>,
    <<"p","r","e","m","i","u","m"," ","c","o","n","t","e","n","t">>,
    <<"s","i","g","n"," ","i","n"," ","t","o"," ","r","e","a","d">>,
    <<"r","e","g","i","s","t","e","r"," ","t","o"," ","c","o","n","t","i","n","u","e">>,
    <<"u","n","l","o","c","k"," ","t","h","i","s"," ","a","r","t","i","c","l","e">>,
    <<"b","e","c","o","m","e"," ","a"," ","m","e","m","b","e","r">>,
    <<"t","h","i","s"," ","c","o","n","t","e","n","t"," ","i","s"," ","f","o","r"," ","s","u","b","s","c","r","i","b","e","r","s">>,
    <<"c","o","n","t","i","n","u","e"," ","r","e","a","d","i","n","g"," ","w","i","t","h">>,
    <<"f","r","e","e"," ","t","r","i","a","l">>,
    <<"m","o","n","t","h","l","y"," ","p","l","a","n">>,
    <<"a","c","c","e","s","s"," ","d","e","n","i","e","d">> }

JS_REQUIRED_INDICATORS ==
  { <<"p","l","e","a","s","e"," ","e","n","a","b","l","e"," ","j","a","v","a","s","c","r","i","p","t">>,
    <<"j","a","v","a","s","c","r","i","p","t"," ","i","s"," ","d","i","s","a","b","l","e","d">>,
    <<"r","e","q","u","i","r","e","s"," ","j","a","v","a","s","c","r","i","p","t">>,
    <<"j","s"," ","i","s"," ","r","e","q","u","i","r","e","d">>,
    <<"e","n","a","b","l","e"," ","j","s"," ","t","o"," ","v","i","e","w">>,
    <<"j","a","v","a","s","c","r","i","p","t"," ","m","u","s","t"," ","b","e"," ","e","n","a","b","l","e","d">>,
    <<"t","h","i","s"," ","s","i","t","e"," ","n","e","e","d","s"," ","j","a","v","a","s","c","r","i","p","t">> }

\* -------------------------------------------------------- rejection values

\* The response field of a rejection value: absent, or an object with a status.
NoResponse == [t |-> "undefined", status |-> Undef]

Response(status) == [t |-> "object", status |-> Num(status)]

\* A value an operation rejects with (or that is thrown inside the layer), by
\* the properties the layer reads.  shape is "Error" (an Error instance),
\* "object" (a plain object), "string" (a non-empty string), "null" or
\* "undefined".
Thrown(shape, name, message, code, response, content) ==
  [shape |-> shape, name |-> name, message |-> message, code |-> code,
   response |-> response, content |-> content]

\* let lastError (not yet assigned)
NoError == Thrown("undefined", Undef, Undef, Undef, NoResponse, Undef)

ThrownNull == Thrown("null", Undef, Undef, Undef, NoResponse, Undef)

\* A TypeError raised by the engine, with its message.
TypeError(text) ==
  Thrown("Error", Str(<<"T","y","p","e","E","r","r","o","r">>), Str(text), Undef, NoResponse, Undef)

\* Reading a property of null or undefined throws; any other value has it or
\* gives undefined.
CanReadProperties(error) == error.shape \notin {"null", "undefined"}

\* if (error)
ErrorTruthy(error) == error.shape \notin {"null", "undefined"}

\* x?.toLowerCase() is a function call unless x is null or undefined; it
\* throws when x is not a string.
LowerCallThrows(v) == v.t \notin {"undefined", "null", "string"}

\* x?.toLowerCase() || ''
LowerOrEmpty(v) == IF v.t = "string" THEN toLowerCase(v.s) ELSE <<>>

\* --------------------------------------------------------- ScrapingError

\* A list of retryable kinds that also holds dns_error.
determineRetryability_WithDns(type) ==
  type \in {"network_error", "timeout", "rate_limited", "dns_error"}

\* ScrapingError.determineRetryability
determineRetryability(type) ==
  type \in {"network_error", "timeout", "rate_limited"}

\* new ScrapingError(type, message, originalError, metadata)
ScrapingError(type, message, originalError, domain, attempt) ==
  [shape |-> "ScrapingError", type |-> type, message |-> message,
   originalError |-> originalError, domain |-> domain, attempt |-> attempt,
   canRetry |-> determineRetryability(type)]

\* error instanceof ScrapingError
IsScrapingError(error) == error.shape = "ScrapingError"

\* error.canRetry, as a condition: undefined on anything but a ScrapingError.
CanRetryOf(error) == IsScrapingError(error) /\ error.canRetry

\* ScrapingError.toJSON: the cause keeps its name and message only.
toJSON(error) ==
  [type |-> error.type, message |-> error.message, canRetry |-> error.canRetry,
   attempt |-> error.attempt,
   originalError |->
     IF ErrorTruthy(error.originalError)
     THEN [present |-> TRUE, name |-> error.originalError.name,
           message |-> error.originalError.message]
     ELSE [present |-> FALSE, name |-> Undef, message |-> Undef]]

\* ----------------------------------------------------------- classifyError

Classified(type, message) == [ok |-> TRUE, type |-> type, message |-> message]

\* classifyError did not return: it threw this TypeError.
ClassifyThrew(text) == [ok |-> FALSE, type |-> "TypeError", message |-> text]

\* A status block that is entered for server errors only.
StatusRuleApplies_ServerOnly(status) == status.t = "number" /\ status.n >= 500

\* The response-status rules (first block of classifyError).
StatusRuleApplies(status) == status.t = "number" /\ status.n >= 400

ClassifyStatus(status) ==
  LET n == status.n IN
  CASE n = 429 -> Classified("rate_limited", <<"R","a","t","e"," ","l","i","m","i","t","e","d"," ","(">> \o NumToStr(n) \o <<")">>)
    [] n = 403 -> Classified("http_error", <<"A","c","c","e","s","s"," ","f","o","r","b","i","d","d","e","n"," ","(">> \o NumToStr(n) \o <<")">>)
    [] n = 404 -> Classified("http_error", <<"P","a","g","e"," ","n","o","t"," ","f","o","u","n","d"," ","(">> \o NumToStr(n) \o <<")">>)
    [] n >= 500 ->
         Classified("http_error",
                    <<"S","e","r","v","e","r"," ","e","r","r","o","r"," ","(">> \o NumToStr(n) \o <<")",":"," ">> \o HTTP_ERROR_CODES(n))
    [] OTHER ->
         Classified("http_error",
                    <<"C","l","i","e","n","t"," ","e","r","r","o","r"," ","(">> \o NumToStr(n) \o <<")",":"," ">> \o HTTP_ERROR_CODES(n))

\* DNS indicators read from the message alone.
IsDnsError_MessageOnly(errorMessage, errorCode) == includes(errorMessage, <<"g","e","t","a","d","d","r","i","n","f","o">>)

\* DNS indicators
IsDnsError(errorMessage, errorCode) ==
  \/ includes(errorMessage, <<"g","e","t","a","d","d","r","i","n","f","o">>)
  \/ errorCode = <<"e","n","o","t","f","o","u","n","d">>
  \/ errorCode = <<"e","n","o","d","a","t","a">>

\* Connection indicators
IsNetworkError(errorMessage, errorCode) ==
  \/ includes(errorMessage, <<"c","o","n","n","e","c","t">>)
  \/ includes(errorMessage, <<"n","e","t","w","o","r","k">>)
  \/ errorCode = <<"e","c","o","n","n","r","e","f","u","s","e","d">>
  \/ errorCode = <<"e","c","o","n","n","r","e","s","e","t">>
  \/ errorCode = <<"e","t","i","m","e","d","o","u","t">>

\* Timeout indicators
IsTimeoutError(errorMessage, errorCode) ==
  \/ includes(errorMessage, <<"t","i","m","e","o","u","t">>)
  \/ errorCode = <<"e","t","i","m","e","o","u","t">>

\* Error rules that look for a timeout before a connection failure.
ClassifyByError_TimeoutFirst(error) ==
  LET errorMessage == LowerOrEmpty(error.message)
      errorCode == LowerOrEmpty(error.code)
  IN
  CASE IsDnsError(errorMessage, errorCode) ->
         Classified("dns_error", <<"D","N","S"," ","r","e","s","o","l","u","t","i","o","n"," ","f","a","i","l","e","d">>)
    [] IsTimeoutError(errorMessage, errorCode) ->
         Classified("timeout", <<"R","e","q","u","e","s","t"," ","t","i","m","e","o","u","t">>)
    [] IsNetworkError(errorMessage, errorCode) ->
         Classified("network_error", <<"N","e","t","w","o","r","k"," ","c","o","n","n","e","c","t","i","o","n"," ","f","a","i","l","e","d">>)
    [] OTHER -> Classified("none", <<>>)

\* The error rules (second block): a result, or "none" when no rule matches.
ClassifyByError(error) ==
  LET errorMessage == LowerOrEmpty(error.message)
      errorCode == LowerOrEmpty(error.code)
  IN
  CASE IsDnsError(errorMessage, errorCode) ->
         Classified("dns_error", <<"D","N","S"," ","r","e","s","o","l","u","t","i","o","n"," ","f","a","i","l","e","d">>)
    [] IsNetworkError(errorMessage, errorCode) ->
         Classified("network_error", <<"N","e","t","w","o","r","k"," ","c","o","n","n","e","c","t","i","o","n"," ","f","a","i","l","e","d">>)
    [] IsTimeoutError(errorMessage, errorCode) ->
         Classified("timeout", <<"R","e","q","u","e","s","t"," ","t","i","m","e","o","u","t">>)
    [] OTHER -> Classified("none", <<>>)

\* The content rules (third block): a result, or "none" when no rule matches.
ClassifyByContent(content) ==
  LET contentLower == toLowerCase(content) IN
  CASE \E indicator \in PAYWALL_INDICATORS : includes(contentLower, indicator) ->
         Classified("paywall", <<"P","a","y","w","a","l","l"," ","d","e","t","e","c","t","e","d">>)
    [] \E indicator \in JS_REQUIRED_INDICATORS : includes(contentLower, indicator) ->
         Classified("javascript_required", <<"J","a","v","a","S","c","r","i","p","t"," ","r","e","q","u","i","r","e","d"," ","f","o","r"," ","c","o","n","t","e","n","t"," ","r","e","n","d","e","r","i","n","g">>)
    [] Len(trim(content)) < 100 /\ ~includes(contentLower, <<"<","!","d","o","c","t","y","p","e">>) ->
         Classified("javascript_required",
                    <<"M","i","n","i","m","a","l"," ","c","o","n","t","e","n","t"," ","d","e","t","e","c","t","e","d"," ","-"," ","l","i","k","e","l","y"," ","r","e","q","u","i","r","e","s"," ","J","a","v","a","S","c","r","i","p","t">>)
    [] OTHER -> Classified("none", <<>>)

\* error?.message || 'Unknown error occurred'
DefaultMessage(error) ==
  IF ErrorTruthy(error) /\ Truthy(error.message) /\ error.message.t = "string"
  THEN error.message.s
  ELSE <<"U","n","k","n","o","w","n"," ","e","r","r","o","r"," ","o","c","c","u","r","r","e","d">>

\* classifyError(error, response = null, content = ''): the classification, or
\* the TypeError it throws on a message, code or content that is not a string.
classifyError(error, response, content) ==
  LET status == IF response.t = "object" THEN response.status ELSE Undef
      cont == IF content.t = "undefined" THEN Str(<<>>) ELSE content
      byError == ClassifyByError(error)
      byContent == ClassifyByContent(cont.s)
  IN
  IF Truthy(status) /\ StatusRuleApplies(status) THEN ClassifyStatus(status)
  ELSE IF ErrorTruthy(error) /\ LowerCallThrows(error.message)
  THEN ClassifyThrew(<<"e","r","r","o","r",".","m","e","s","s","a","g","e","?",".","t","o","L","o","w","e","r","C","a","s","e"," ","i","s"," ","n","o","t"," ","a"," ","f","u","n","c","t","i","o","n">>)
  ELSE IF ErrorTruthy(error) /\ LowerCallThrows(error.code)
  THEN ClassifyThrew(<<"e","r","r","o","r",".","c","o","d","e","?",".","t","o","L","o","w","e","r","C","a","s","e"," ","i","s"," ","n","o","t"," ","a"," ","f","u","n","c","t","i","o","n">>)
  ELSE IF ErrorTruthy(error) /\ byError.type # "none" THEN byError
  ELSE IF Truthy(cont) /\ cont.t # "string"
  THEN ClassifyThrew(<<"c","o","n","t","e","n","t",".","t","o","L","o","w","e","r","C","a","s","e"," ","i","s"," ","n","o","t"," ","a"," ","f","u","n","c","t","i","o","n">>)
  ELSE IF Truthy(cont) /\ byContent.type # "none" THEN byContent
  ELSE Classified("unknown", DefaultMessage(error))

\* -------------------------------------------------------- CircuitBreaker

\* new CircuitBreaker(failureThreshold = 5, timeoutMs = 60000)
failureThreshold == 5

timeoutMs == 60000

\* Map.get(key) || 0
Get(map, key) == IF key \in DOMAIN map THEN map[key] ELSE 0

\* Map.set(key, value)
Set(map, key, value) ==
  [k \in DOMAIN map \cup {key} |-> IF k = key THEN value ELSE map[k]]

\* Map.delete(key)
Delete(map, key) == [k \in DOMAIN map \ {key} |-> map[k]]

\* new Map()
EmptyMap == [k \in {} |-> 0]

\* ------------------------------------------------------------------ bounds

\* The clock is advanced at most this many times.
MaxTicks == 2

\* options.maxRetries is drawn from 0..MaxRetriesOpt, or left to its default.
MaxRetriesOpt == 2

\* An operation fails at most this many times before its final outcome.
MaxFailsFirst == 2

\* No call is started for a domain whose failure count has reached this.
MaxFailureCount == 6

\* The wrap calls that can be held at once.
MaxCalls == 3

CallIds == 1..MaxCalls

\* ------------------------------------------------------------------ inputs

\* A url, by what new URL(url) makes of it.
Url(href, parsable, hostname) ==
  [href |-> href, parsable |-> parsable, hostname |-> hostname]

UrlA == Url("https://x.com/a", TRUE, "x.com")

UrlUnparsable == Url("not a url", FALSE, "")

NoUrl == Url("", FALSE, "")

\* What one invocation of an operation ends in.
Resolve(data) == [tag |-> "resolve", data |-> data, value |-> NoError]

Reject(value) == [tag |-> "reject", data |-> "", value |-> value]

\* const error = new Error('Network error'); error.code = 'ECONNRESET'
ErrNetwork ==
  Thrown("Error", Str(<<"E","r","r","o","r">>), Str(<<"N","e","t","w","o","r","k"," ","e","r","r","o","r">>), Str(<<"E","C","O","N","N","R","E","S","E","T">>),
         NoResponse, Undef)

\* { code: 'ENOTFOUND' }
ErrDns == Thrown("object", Undef, Undef, Str(<<"E","N","O","T","F","O","U","N","D">>), NoResponse, Undef)

\* An Error carrying response = { status: 429 }
ErrRateLimited ==
  Thrown("Error", Str(<<"E","r","r","o","r">>), Str(<<"H","T","T","P"," ","E","r","r","o","r">>), Undef, Response(429), Undef)

\* An Error carrying response = { status: 404 }
ErrNotFound ==
  Thrown("Error", Str(<<"E","r","r","o","r">>), Str(<<"H","T","T","P"," ","E","r","r","o","r">>), Undef, Response(404), Undef)

\* new Error('Request timeout')
ErrTimeout ==
  Thrown("Error", Str(<<"E","r","r","o","r">>), Str(<<"R","e","q","u","e","s","t"," ","t","i","m","e","o","u","t">>), Undef, NoResponse, Undef)

\* An Error carrying content = 'Subscribe now to read more...'
ErrPaywall ==
  Thrown("Error", Str(<<"E","r","r","o","r">>), Str(<<"B","l","o","c","k","e","d">>), Undef, NoResponse,
         Str(<<"S","u","b","s","c","r","i","b","e"," ","n","o","w"," ","t","o"," ","r","e","a","d"," ","m","o","r","e",".",".",".">>))

\* A thrown string: throw 'boom'
ErrString == Thrown("string", Undef, Undef, Undef, NoResponse, Undef)

\* A plain object whose message is not a string: throw { message: 42 }
ErrBadMessage == Thrown("object", Undef, Num(42), Undef, NoResponse, Undef)

ThrownUndefined == Thrown("undefined", Undef, Undef, Undef, NoResponse, Undef)

\* The rejection values of the operations.
RejectionValues ==
  {ErrNetwork, ErrDns, ErrRateLimited, ErrNotFound, ErrTimeout, ErrPaywall,
   ErrString, ErrBadMessage, ThrownNull, ThrownUndefined}

\* The errors of an operation that fails before its final outcome.
FlakyErrors == {ErrNetwork, ErrRateLimited, ErrDns}

FinalOutcomes == {Resolve("A")} \cup {Reject(v) : v \in RejectionValues}

\* An operation in the manner of flakyOperation: its first failsFirst
\* invocations reject with err, every later one ends in final.
Operation(failsFirst, err, final) ==
  [failsFirst |-> failsFirst, err |-> err, final |-> final]

\* if (attemptCount <= 2) throw error; return { ... }
OutcomeAt(operation, attemptCount) ==
  IF attemptCount <= operation.failsFirst
  THEN Reject(operation.err)
  ELSE operation.final

NoOperation == Operation(0, NoError, Resolve(""))

Operations ==
  {Operation(0, NoError, f) : f \in FinalOutcomes}
  \cup UNION {{Operation(k, e, f) : k \in 1..MaxFailsFirst,
                                     f \in {Resolve("A"), Reject(ErrNetwork), Reject(ErrDns)}}
              : e \in FlakyErrors}

\* The options object given to new ScrapingErrorHandler(options): a key is
\* given or absent.
GivenOptions(hasMaxRetries, maxRetries, hasEnable, enableCircuitBreaker) ==
  [hasMaxRetries |-> hasMaxRetries, maxRetries |-> maxRetries,
   hasEnable |-> hasEnable, enableCircuitBreaker |-> enableCircuitBreaker]

\* The options with the key logErrors given as well.
WithLogErrors(given, logErrors) == given @@ [logErrors |-> logErrors]

DefaultMaxRetries == 3

\* ScrapingErrorHandler.constructor: the defaults, overridden by every key given.
constructor(given) ==
  [maxRetries |-> IF given.hasMaxRetries THEN given.maxRetries ELSE DefaultMaxRetries,
   enableCircuitBreaker |-> IF given.hasEnable THEN given.enableCircuitBreaker ELSE TRUE,
   logErrors |-> IF "logErrors" \in DOMAIN given THEN given.logErrors ELSE TRUE]

OptionInputs ==
  {GivenOptions(FALSE, 0, he, e) : he \in BOOLEAN, e \in BOOLEAN}
  \cup {GivenOptions(TRUE, m, he, e) : m \in 0..MaxRetriesOpt, he \in BOOLEAN, e \in BOOLEAN}

\* ------------------------------------------------------------------- state

VARIABLES
  failures,      \* circuitBreaker.failures: domain -> failure count
  lastFailure,   \* circuitBreaker.lastFailure: domain -> timestamp
  now,           \* Date.now()
  options,       \* this.options of the handler
  calls,         \* the wrap calls: where each stands, and what it returned
  batch,         \* the wrapBatch call: its loop, its lists, what it returned
  test           \* testCircuitBreaker: its loop and what it printed

vars == <<failures, lastFailure, now, options, calls, batch, test>>

\* -------------------------------------------------------- CircuitBreaker

\* A canAttempt that never lets a blocked domain in again.
canAttempt_NeverReopens(domain) == Get(failures, domain) < failureThreshold

\* A canAttempt that lets the threshold-th failure pass.
canAttempt_AboveThreshold(domain) ==
  LET count == Get(failures, domain)
      last == Get(lastFailure, domain)
  IN IF count > failureThreshold
     THEN (now - last) > timeoutMs
     ELSE TRUE

\* CircuitBreaker.canAttempt
canAttempt(domain) ==
  LET count == Get(failures, domain)
      last == Get(lastFailure, domain)
  IN IF count >= failureThreshold
     THEN (now - last) > timeoutMs
     ELSE TRUE

\* A recordFailure that writes back a count read before any other call wrote.
recordFailure_StaleRead(domain) ==
  /\ failures' = Set(failures, domain, 1)
  /\ lastFailure' = Set(lastFailure, domain, now)

\* A recordFailure that keeps no timestamp.
recordFailure_NoTimestamp(domain) ==
  /\ failures' = Set(failures, domain, Get(failures, domain) + 1)
  /\ lastFailure' = lastFailure

\* CircuitBreaker.recordFailure
recordFailure(domain) ==
  /\ failures' = Set(failures, domain, Get(failures, domain) + 1)
  /\ lastFailure' = Set(lastFailure, domain, now)

\* A recordSuccess that stores a count of 0.
recordSuccess_StoresZero(domain) ==
  /\ failures' = Set(failures, domain, 0)
  /\ lastFailure' = Set(lastFailure, domain, 0)

\* A recordSuccess that forgets the timestamp map.
recordSuccess_KeepsTimestamp(domain) ==
  /\ failures' = Delete(failures, domain)
  /\ lastFailure' = lastFailure

\* CircuitBreaker.recordSuccess
recordSuccess(domain) ==
  /\ failures' = Delete(failures, domain)
  /\ lastFailure' = Delete(lastFailure, domain)

\* getCircuitBreakerStatus().failures and .lastFailures
getCircuitBreakerStatus ==
  [failures |-> failures, lastFailures |-> lastFailure,
   threshold |-> failureThreshold, timeout |-> timeoutMs]

\* ------------------------------------------------------------------- wrap

\* A domain that is the hostname, parsed or not.
extractDomain_NoSentinel(url) == url.hostname

\* A domain that is the whole url.
extractDomain_Href(url) == url.href

\* extractDomain
extractDomain(url) == IF url.parsable THEN url.hostname ELSE "unknown-domain"

NoErrorJSON ==
  [type |-> "none", message |-> <<>>, canRetry |-> FALSE, attempt |-> Undef,
   originalError |-> [present |-> FALSE, name |-> Undef, message |-> Undef]]

NoRet ==
  [kind |-> "none", data |-> "", error |-> NoErrorJSON, domain |-> "", timestamp |-> 0]

\* { success: true, data, metadata: { domain, operationId, timestamp } }
SuccessEnvelope(data, domain) ==
  [kind |-> "success", data |-> data, error |-> NoErrorJSON, domain |-> domain,
   timestamp |-> now]

\* { success: false, error: error.toJSON(), metadata: { domain, operationId, timestamp } }
FailureEnvelope(error, domain) ==
  [kind |-> "failure", data |-> "", error |-> toJSON(error), domain |-> domain,
   timestamp |-> now]

\* wrap's promise rejects: nothing is returned.
Raised(value) ==
  [kind |-> "raised", data |-> "",
   error |-> [NoErrorJSON EXCEPT !.type = "raised", !.message = value.message.s],
   domain |-> "", timestamp |-> 0]

IdleCall ==
  [pc |-> "idle", url |-> NoUrl, domain |-> "", operation |-> NoOperation,
   context |-> Undef, attempt |-> 0, invoked |-> 0, waits |-> 0,
   lastError |-> NoError, ret |-> NoRet, log |-> "none"]

BreakerOpenMessage ==
  <<"C","i","r","c","u","i","t"," ","b","r","e","a","k","e","r"," ","o","p","e","n"," ","-"," ","d","o","m","a","i","n"," ","t","e","m","p","o","r","a","r","i","l","y"," ","b","l","o","c","k","e","d"," ","d","u","e"," ","t","o"," ","r","e","p","e","a","t","e","d"," ","f","a","i","l","u","r","e","s">>

\* The catch block around scrapingOperation(): the rejection value is
\* classified and wrapped; reading error.response of null or undefined, or a
\* classifyError that throws, leaves a TypeError instead.
InnerCatch(error, domain, context) ==
  IF ~CanReadProperties(error)
  THEN TypeError(<<"C","a","n","n","o","t"," ","r","e","a","d"," ","p","r","o","p","e","r","t","i","e","s"," ","o","f"," ">>
                 \o (IF error.shape = "null" THEN <<"n","u","l","l">> ELSE <<"u","n","d","e","f","i","n","e","d">>)
                 \o <<" ","(","r","e","a","d","i","n","g"," ","'","r","e","s","p","o","n","s","e","'",")">>)
  ELSE LET classification == classifyError(error, error.response, error.content) IN
       IF classification.ok
       THEN ScrapingError(classification.type, classification.message, error,
                          domain, context)
       ELSE TypeError(classification.message)

\* A loop that stops one attempt short.
LoopContinues_Strict(attempt, maxRetries) == attempt < maxRetries

\* retryWithBackoff: for (let attempt = 0; attempt <= maxRetries; attempt++)
LoopContinues(attempt, maxRetries) == attempt <= maxRetries

\* A break that does not look at the attempt: a wait follows the last one too.
StopRetrying_WaitsAfterLast(attempt, maxRetries, error) == ~CanRetryOf(error)

\* A break that gives up one attempt early.
StopRetrying_OffByOne(attempt, maxRetries, error) ==
  attempt + 1 >= maxRetries \/ ~CanRetryOf(error)

\* A break that does not look at canRetry.
StopRetrying_IgnoresCanRetry(attempt, maxRetries, error) ==
  attempt = maxRetries

\* retryWithBackoff: if (attempt === maxRetries || !error.canRetry) break
StopRetrying(attempt, maxRetries, error) ==
  attempt = maxRetries \/ ~CanRetryOf(error)

\* A catch block that takes what it caught for a ScrapingError.
EnsureScrapingError_NoWrap(error, domain) == error

\* wrap's catch block, first part: ensure we have a ScrapingError.  The result
\* is the ScrapingError, or the TypeError that classifyError(error) threw.
EnsureScrapingError(error, domain) ==
  IF IsScrapingError(error) THEN error
  ELSE LET classification == classifyError(error, NoResponse, Undef) IN
       IF classification.ok
       THEN ScrapingError(classification.type, classification.message, error,
                          domain, Undef)
       ELSE TypeError(classification.message)

\* A list of kinds that also counts timeouts.
TripsCircuitBreaker_Timeout(type) ==
  type \in {"http_error", "network_error", "dns_error", "timeout"}

\* The kinds that count against the domain.
TripsCircuitBreaker(type) == type \in {"http_error", "network_error", "dns_error"}

\* JSON.stringify throws on a value that holds itself.
Circular == [t |-> "circular", s |-> <<>>, n |-> 0]

\* A logError whose JSON.stringify is not in a try block.
logError_Unguarded(error, url, context) ==
  IF context = Circular
  THEN [threw |-> TRUE, printed |-> "none"]
  ELSE [threw |-> FALSE, printed |-> "entry"]

\* logError(error, url, context): the entry is printed, or, JSON.stringify
\* having thrown, the fallback line with the type and the message.
logError(error, url, context) ==
  IF context = Circular
  THEN [threw |-> FALSE, printed |-> "fallback"]
  ELSE [threw |-> FALSE, printed |-> "entry"]

\* wrap's catch block, second part: record, log, return the failure envelope.
\* call is the call as it stands when the error is caught.  A logError that
\* throws is caught, and '[ERROR_HANDLER] Failed to log error:' is printed.
WrapCatch(c, call, caught) ==
  LET error == EnsureScrapingError(caught, call.domain)
      logged == logError(error, call.url, call.context)
  IN
  IF ~IsScrapingError(error)
  THEN /\ calls' = [calls EXCEPT ![c] = [call EXCEPT !.pc = "done", !.ret = Raised(error)]]
       /\ UNCHANGED <<failures, lastFailure>>
  ELSE /\ IF options.enableCircuitBreaker /\ TripsCircuitBreaker(error.type)
          THEN recordFailure(call.domain)
          ELSE UNCHANGED <<failures, lastFailure>>
       /\ calls' = [calls EXCEPT ![c] =
            [call EXCEPT !.pc = "done", !.ret = FailureEnvelope(error, call.domain),
                         !.log = IF ~options.logErrors THEN "none"
                                 ELSE IF logged.threw THEN "handler"
                                 ELSE logged.printed]]

\* wrap, after retryWithBackoff has returned a result.
WrapSuccess(c, call, result) ==
  /\ IF options.enableCircuitBreaker
     THEN recordSuccess(call.domain)
     ELSE UNCHANGED <<failures, lastFailure>>
  /\ calls' = [calls EXCEPT ![c] =
       [call EXCEPT !.pc = "done", !.ret = SuccessEnvelope(result, call.domain)]]

\* A breaker check that does not look at the option.
BreakerBlocks_OptionIgnored(domain) == ~canAttempt(domain)

\* A breaker check with the negation lost.
BreakerBlocks_Inverted(domain) == options.enableCircuitBreaker /\ canAttempt(domain)

\* wrap: if (this.options.enableCircuitBreaker && !circuitBreaker.canAttempt(domain))
BreakerBlocks(domain) == options.enableCircuitBreaker /\ ~canAttempt(domain)

\* wrap(url, scrapingOperation, context) up to its first suspension: the
\* breaker check, then either the catch block or the first invocation of the
\* operation (attempt 0 of retryWithBackoff; a loop that does not run throws
\* lastError, still undefined).
WrapEnter(c, url, operation, context) ==
  /\ calls[c].pc = "idle"
  /\ Get(failures, extractDomain(url)) < MaxFailureCount
  /\ LET domain == extractDomain(url)
         call == [IdleCall EXCEPT !.url = url, !.domain = domain,
                                  !.operation = operation, !.context = context]
     IN IF BreakerBlocks(domain)
        THEN WrapCatch(c, call,
                       ScrapingError("http_error", BreakerOpenMessage, NoError,
                                     domain, Undef))
        ELSE IF ~LoopContinues(0, options.maxRetries)
        THEN WrapCatch(c, call, call.lastError)
        ELSE /\ calls' = [calls EXCEPT ![c] =
                  [call EXCEPT !.pc = "operation", !.attempt = 0, !.invoked = 1]]
             /\ UNCHANGED <<failures, lastFailure>>
  /\ UNCHANGED <<now, options>>

\* The operation in flight settles, and wrap runs on to its next suspension or
\* to its return.
OperationSettles(c) ==
  /\ calls[c].pc = "operation"
  /\ LET call == calls[c]
         outcome == OutcomeAt(call.operation, call.invoked)
         error == InnerCatch(outcome.value, call.domain, call.context)
         failed == [call EXCEPT !.lastError = error]
     IN IF outcome.tag = "resolve"
        THEN WrapSuccess(c, call, outcome.data)
        ELSE IF StopRetrying(call.attempt, options.maxRetries, error)
        THEN WrapCatch(c, failed, failed.lastError)
        ELSE /\ calls' = [calls EXCEPT ![c] =
                  [failed EXCEPT !.pc = "backoff", !.waits = @ + 1]]
             /\ UNCHANGED <<failures, lastFailure>>
  /\ UNCHANGED <<now, options>>

\* The backoff timer fires: attempt++ and the operation is invoked again.  The
\* delay is baseDelay * 2^attempt * (0.5 + random * 0.5) and a timer may fire
\* late, so the wait ends at any time.
BackoffElapses(c) ==
  /\ calls[c].pc = "backoff"
  /\ LET call == [calls[c] EXCEPT !.attempt = @ + 1] IN
     IF LoopContinues(call.attempt, options.maxRetries)
     THEN /\ calls' = [calls EXCEPT ![c] =
               [call EXCEPT !.pc = "operation", !.invoked = @ + 1]]
          /\ UNCHANGED <<failures, lastFailure>>
     ELSE WrapCatch(c, call, call.lastError)
  /\ UNCHANGED <<now, options>>

\* The caller takes the envelope (or the rejection) of a finished call.
CallerResumes(c) ==
  /\ calls[c].pc = "done"
  /\ calls' = [calls EXCEPT ![c] = IdleCall]
  /\ UNCHANGED <<failures, lastFailure, now, options>>

\* A reset that leaves the entries alone while a call is in flight.
resetCircuitBreaker_SkipsInFlight(given, domain) ==
  /\ IF \E c \in CallIds : calls[c].pc \in {"operation", "backoff"}
     THEN UNCHANGED <<failures, lastFailure>>
     ELSE IF given /\ domain # ""
     THEN /\ failures' = Delete(failures, domain)
          /\ lastFailure' = Delete(lastFailure, domain)
     ELSE /\ failures' = EmptyMap
          /\ lastFailure' = EmptyMap
  /\ UNCHANGED <<now, options, calls>>

\* A reset that forgets the timestamps and keeps the counts.
resetCircuitBreaker_KeepsCounts(given, domain) ==
  /\ IF given /\ domain # ""
     THEN /\ failures' = failures
          /\ lastFailure' = Delete(lastFailure, domain)
     ELSE /\ failures' = failures
          /\ lastFailure' = EmptyMap
  /\ UNCHANGED <<now, options, calls>>

\* resetCircuitBreaker(domain = null): domain is a string, or not given.
resetCircuitBreaker(given, domain) ==
  /\ IF given /\ domain # ""
     THEN /\ failures' = Delete(failures, domain)
          /\ lastFailure' = Delete(lastFailure, domain)
     ELSE /\ failures' = EmptyMap
          /\ lastFailure' = EmptyMap
  /\ UNCHANGED <<now, options, calls>>

\* Time passes.
ClockSteps == {timeoutMs, timeoutMs + 1}

Tick(d) ==
  /\ now \div timeoutMs < MaxTicks
  /\ now' = now + d
  /\ UNCHANGED <<failures, lastFailure, options, calls>>


\* --------------------------------------------------------------- wrapBatch

\* a < b ? a : b, and its mirror
Min(a, b) == IF a < b THEN a ELSE b

Max(a, b) == IF a > b THEN a ELSE b

\* Array.prototype.slice's reading of an index: a negative one counts from the
\* end, and both are clamped to the array.
RelativeIndex(len, x) == IF x < 0 THEN Max(len + x, 0) ELSE Min(x, len)

\* A slice that runs to the end of the array, whatever its end index.
slice_ToTheEnd(len, start, end) ==
  LET k == RelativeIndex(len, start) IN
  [p \in 1..Max(len - k, 0) |-> k + p]

\* urlsAndOperations.slice(start, end), as the positions (from 1) it takes.
slice(len, start, end) ==
  LET k == RelativeIndex(len, start)
      final == RelativeIndex(len, end)
  IN [p \in 1..Max(final - k, 0) |-> k + p]

\* The elements of a sequence.
Range(seq) == {seq[p] : p \in DOMAIN seq}

\* results.length / urlsAndOperations.length: a number, or NaN for 0 / 0.
Divide(a, b) == [nan |-> (a = 0 /\ b = 0), num |-> a, den |-> b]

NoSummary ==
  [returned |-> FALSE, success |-> FALSE, total |-> 0, succeeded |-> 0,
   failed |-> 0, successRate |-> Divide(0, 1)]

IdleBatch ==
  [pc |-> "idle", items |-> <<>>, concurrency |-> 0, continueOnError |-> TRUE,
   collectErrors |-> TRUE, i |-> 0, group |-> <<>>, j |-> 0, settled |-> {},
   rejected |-> {}, results |-> <<>>, errors |-> <<>>, ret |-> NoSummary]

\* A summary whose flag is set when no item is in errors.
BatchReturn_NoErrors(b) ==
  [b EXCEPT !.pc = "returned",
            !.ret = [returned |-> TRUE,
                     success |-> Len(b.errors) = 0,
                     total |-> Len(b.items),
                     succeeded |-> Len(b.results),
                     failed |-> Len(b.errors),
                     successRate |-> Divide(Len(b.results), Len(b.items))]]

\* return { success, results, errors, summary: { total, succeeded, failed, successRate } }
BatchReturn(b) ==
  [b EXCEPT !.pc = "returned",
            !.ret = [returned |-> TRUE,
                     success |-> Len(b.results) > 0,
                     total |-> Len(b.items),
                     succeeded |-> Len(b.results),
                     failed |-> Len(b.errors),
                     successRate |-> Divide(Len(b.results), Len(b.items))]]

\* The head of the for loop, i holding its value: the next slice is taken and
\* its map begins, or the loop is over and wrapBatch returns.
BatchLoopHead(b) ==
  IF b.i < Len(b.items)
  THEN [b EXCEPT !.pc = "mapping",
                 !.group = slice(Len(b.items), b.i, b.i + b.concurrency),
                 !.j = 0, !.settled = {}, !.rejected = {}]
  ELSE BatchReturn(b)

\* The items of a batch: { url, operation, context }.
Item(url, operation) == [url |-> url, operation |-> operation, context |-> Undef]

\* wrapBatch(urlsAndOperations, options): the options are destructured, the
\* lists are created, and the loop is entered.
wrapBatch(items, concurrency, continueOnError, collectErrors) ==
  /\ batch.pc = "idle"
  /\ batch' = BatchLoopHead([IdleBatch EXCEPT !.items = items,
                                              !.concurrency = concurrency,
                                              !.continueOnError = continueOnError,
                                              !.collectErrors = collectErrors])
  /\ UNCHANGED <<failures, lastFailure, now, options, calls, test>>

\* batch.map, one element: the callback runs to its await, that is wrap runs
\* to its first suspension.  The map is synchronous: nothing else runs until
\* its last element is done.  The call of the item at position k is call k.
BatchMapItem ==
  /\ batch.pc = "mapping"
  /\ batch.j < Len(batch.group)
  /\ LET k == batch.group[batch.j + 1]
         item == batch.items[k]
     IN WrapEnter(k, item.url, item.operation, item.context)
  /\ batch' = [batch EXCEPT !.j = @ + 1]
  /\ UNCHANGED test

\* await Promise.allSettled(batchPromises) is reached.
BatchAwaits ==
  /\ batch.pc = "mapping"
  /\ batch.j = Len(batch.group)
  /\ batch' = [batch EXCEPT !.pc = "waiting"]
  /\ UNCHANGED <<failures, lastFailure, now, options, calls, test>>

\* The items of the current slice whose wrap has returned and whose callback
\* has not yet resumed.
CallbacksPending ==
  {k \in Range(batch.group) \ batch.settled : calls[k].pc = "done"}

\* A callback throws when wrap itself rejected, and when the item failed and
\* continueOnError is off.
CallbackThrows(b, result) ==
  \/ result.kind = "raised"
  \/ result.kind = "failure" /\ ~b.continueOnError

\* A callback that puts its entry at the head of the list.
BatchItemSettles_AtTheHead(k) ==
  /\ batch.pc = "waiting"
  /\ k \in CallbacksPending
  /\ \A other \in CallbacksPending : k <= other
  /\ LET result == calls[k].ret
         entry == [url |-> batch.items[k].url, result |-> result]
     IN batch' = [batch EXCEPT
          !.results = IF result.kind = "success" THEN <<entry>> \o @ ELSE @,
          !.errors = IF result.kind = "failure" /\ batch.collectErrors
                     THEN <<entry>> \o @ ELSE @,
          !.settled = @ \cup {k},
          !.rejected = IF CallbackThrows(batch, result) THEN @ \cup {k} ELSE @]
  /\ calls' = [calls EXCEPT ![k] = IdleCall]
  /\ UNCHANGED <<failures, lastFailure, now, options, test>>

\* A callback that drops a success once a sibling of its group has thrown.
BatchItemSettles_SiblingCancels(k) ==
  /\ batch.pc = "waiting"
  /\ k \in CallbacksPending
  /\ \A other \in CallbacksPending : k <= other
  /\ LET result == calls[k].ret
         entry == [url |-> batch.items[k].url, result |-> result]
     IN batch' = [batch EXCEPT
          !.results = IF result.kind = "success" /\ batch.rejected = {}
                      THEN Append(@, entry) ELSE @,
          !.errors = IF result.kind = "failure" /\ batch.collectErrors
                     THEN Append(@, entry) ELSE @,
          !.settled = @ \cup {k},
          !.rejected = IF CallbackThrows(batch, result) THEN @ \cup {k} ELSE @]
  /\ calls' = [calls EXCEPT ![k] = IdleCall]
  /\ UNCHANGED <<failures, lastFailure, now, options, test>>

\* The callback of the map resumes with wrap's result: the result is pushed
\* on results or (when collected) on errors, and the callback returns it or
\* throws.  Callbacks resume in the order their calls returned; calls that
\* returned in one step resume in the order of the map.
BatchItemSettles(k) ==
  /\ batch.pc = "waiting"
  /\ k \in CallbacksPending
  /\ \A other \in CallbacksPending : k <= other
  /\ LET result == calls[k].ret
         entry == [url |-> batch.items[k].url, result |-> result]
     IN batch' = [batch EXCEPT
          !.results = IF result.kind = "success" THEN Append(@, entry) ELSE @,
          !.errors = IF result.kind = "failure" /\ batch.collectErrors
                     THEN Append(@, entry) ELSE @,
          !.settled = @ \cup {k},
          !.rejected = IF CallbackThrows(batch, result) THEN @ \cup {k} ELSE @]
  /\ calls' = [calls EXCEPT ![k] = IdleCall]
  /\ UNCHANGED <<failures, lastFailure, now, options, test>>

\* Promise.allSettled resolves, every promise of the slice being settled
\* (fulfilled or rejected): i += concurrency, and the loop goes on.
BatchGroupSettled ==
  /\ batch.pc = "waiting"
  /\ Range(batch.group) = batch.settled
  /\ batch' = BatchLoopHead([batch EXCEPT !.i = @ + batch.concurrency])
  /\ UNCHANGED <<failures, lastFailure, now, options, calls, test>>

\* A call of the batch goes on only when no callback is waiting to resume:
\* the callback was queued first.
BatchOperationSettles(c) ==
  /\ batch.pc = "waiting"
  /\ CallbacksPending = {}
  /\ OperationSettles(c)
  /\ UNCHANGED <<batch, test>>

BatchBackoffElapses(c) ==
  /\ batch.pc = "waiting"
  /\ CallbacksPending = {}
  /\ BackoffElapses(c)
  /\ UNCHANGED <<batch, test>>

\* ------------------------------------------------------ testCircuitBreaker

\* const testDomain = 'failing-test-domain.com'
testDomain == "failing-test-domain.com"

\* const testUrl = `https://${testDomain}/test`
testUrl == Url("https://failing-test-domain.com/test", TRUE, testDomain)

\* const alwaysFails = async () => { ... throw error }
alwaysFails == Operation(0, NoError, Reject(ErrNetwork))

\* for (let i = 0; i < 6; i++)
TestCalls == 6

\* status.failures[testDomain] >= 5
TestBlockedAt == 5

IdleTest ==
  [pc |-> "loop", i |-> 0, operation |-> alwaysFails, log |-> <<>>,
   domainBlocked |-> FALSE, domainReset |-> FALSE]

\* const result = await handler.wrap(testUrl, alwaysFails)
TestCallsWrap ==
  /\ test.pc = "loop"
  /\ test.i < TestCalls
  /\ WrapEnter(1, testUrl, test.operation, Undef)
  /\ test' = [test EXCEPT !.pc = "await"]
  /\ UNCHANGED batch

\* The test resumes with the result and prints its line:
\* Attempt ${i + 1}: ${result.success ? 'Success' : result.error.type}
\* The line is kept with the number of times the operation ran in the call
\* and the envelope's timestamp.
TestResumes ==
  /\ test.pc = "await"
  /\ calls[1].pc = "done"
  /\ LET result == calls[1].ret IN
     test' = [test EXCEPT
       !.pc = IF result.kind = "raised" THEN "threw" ELSE "loop",
       !.i = @ + 1,
       !.log = Append(@, [printed |-> IF result.kind = "success" THEN "Success"
                                      ELSE result.error.type,
                          kind |-> result.kind,
                          invoked |-> calls[1].invoked,
                          timestamp |-> result.timestamp])]
  /\ calls' = [calls EXCEPT ![1] = IdleCall]
  /\ UNCHANGED <<failures, lastFailure, now, options, batch>>

\* After the loop: the status is read, the domain is reset, the status is
\* read again.
TestChecksStatus ==
  /\ test.pc = "loop"
  /\ test.i >= TestCalls
  /\ resetCircuitBreaker(TRUE, testDomain)
  /\ test' = [test EXCEPT
       !.pc = "finished",
       !.domainBlocked = /\ testDomain \in DOMAIN getCircuitBreakerStatus.failures
                         /\ getCircuitBreakerStatus.failures[testDomain] >= TestBlockedAt,
       !.domainReset = testDomain \notin DOMAIN failures']
  /\ UNCHANGED batch

\* ---------------------------------------------------- a sequential caller

\* The state after new ScrapingErrorHandler(options): the breaker is empty,
\* nothing has been called.
InitWith(optionInputs) ==
  /\ failures = EmptyMap
  /\ lastFailure = EmptyMap
  /\ now = 1
  /\ options \in {constructor(given) : given \in optionInputs}
  /\ calls = [c \in CallIds |-> IdleCall]
  /\ batch = IdleBatch
  /\ test = IdleTest

Init == InitWith(OptionInputs)

Urls == {UrlA}

\* A caller that awaits each wrap before it makes the next call.
CallWrap ==
  /\ \E url \in Urls, operation \in Operations : WrapEnter(1, url, operation, Undef)
  /\ UNCHANGED <<batch, test>>

Settle ==
  /\ \E c \in CallIds : OperationSettles(c)
  /\ UNCHANGED <<batch, test>>

Backoff ==
  /\ \E c \in CallIds : BackoffElapses(c)
  /\ UNCHANGED <<batch, test>>

Resume ==
  /\ \E c \in CallIds : CallerResumes(c)
  /\ UNCHANGED <<batch, test>>

Clock ==
  /\ \E d \in ClockSteps : Tick(d)
  /\ UNCHANGED <<batch, test>>

Reset ==
  /\ calls[1].pc = "idle"
  /\ resetCircuitBreaker(TRUE, "x.com")
  /\ UNCHANGED <<batch, test>>

Next ==
  \/ CallWrap
  \/ Settle
  \/ Backoff
  \/ Resume
  \/ Clock
  \/ Reset

Spec == Init /\ [][Next]_vars

\* -------------------------------------------- testCircuitBreaker, as a run

\* The test's handler is made with enableCircuitBreaker: true and maxRetries: 1;
\* here maxRetries is any of 0..MaxRetriesOpt, and the operation always fails
\* in one of the kinds that count against the domain.
AlwaysFailing == {Operation(0, NoError, Reject(v)) : v \in {ErrNetwork, ErrDns, ErrNotFound}}

TestOptionInputs ==
  {WithLogErrors(GivenOptions(TRUE, m, TRUE, TRUE), FALSE) : m \in 0..MaxRetriesOpt}

TestInit ==
  /\ InitWith(TestOptionInputs)
  /\ \E operation \in AlwaysFailing : test = [IdleTest EXCEPT !.operation = operation]

TestNext ==
  \/ TestCallsWrap
  \/ Settle
  \/ Backoff
  \/ TestResumes
  \/ TestChecksStatus
  \/ Clock

SpecTest == TestInit /\ [][TestNext]_vars

\* ----------------------------------------------------- wrapBatch, as a run

\* A batch holds at most this many items.
MaxItems == 3

\* options.concurrency is drawn from 0..MaxConcurrency.
MaxConcurrency == 3

BatchOperations ==
  {Operation(0, NoError, Resolve("A")),
   Operation(0, NoError, Reject(ErrDns)),
   Operation(0, NoError, Reject(ErrRateLimited))}

\* The sequences over a set, up to a length.
RECURSIVE SeqsUpTo(_, _)
SeqsUpTo(S, n) ==
  IF n = 0 THEN {<<>>}
  ELSE LET shorter == SeqsUpTo(S, n - 1) IN
       shorter \cup {Append(seq, x) : seq \in {s \in shorter : Len(s) = n - 1}, x \in S}

BatchInputs == SeqsUpTo({Item(UrlA, operation) : operation \in BatchOperations},
                        Min(MaxItems, MaxCalls))

\* The handler is the one of the tests: maxRetries: 1.
BatchOptionInputs == {WithLogErrors(GivenOptions(TRUE, 1, FALSE, TRUE), FALSE)}

BatchInit == InitWith(BatchOptionInputs)

CallWrapBatch ==
  \E items \in BatchInputs, concurrency \in 0..MaxConcurrency,
     continueOnError \in BOOLEAN, collectErrors \in BOOLEAN :
    wrapBatch(items, concurrency, continueOnError, collectErrors)

BatchNext ==
  \/ CallWrapBatch
  \/ BatchMapItem
  \/ BatchAwaits
  \/ \E c \in CallIds : BatchOperationSettles(c)
  \/ \E c \in CallIds : BatchBackoffElapses(c)
  \/ \E k \in CallIds : BatchItemSettles(k)
  \/ BatchGroupSettled

SpecBatch == BatchInit /\ [][BatchNext]_vars

\* The event loop runs what is ready, and every operation and every timer
\* comes to its end.
SpecBatchLive ==
  /\ SpecBatch
  /\ WF_vars(BatchMapItem) /\ WF_vars(BatchAwaits) /\ WF_vars(BatchGroupSettled)
  /\ \A c \in CallIds :
       /\ WF_vars(BatchOperationSettles(c))
       /\ WF_vars(BatchBackoffElapses(c))
       /\ WF_vars(BatchItemSettles(c))

\* ------------------------------------------------- demo-scraper: scrapeUrls

\* A JavaScript object, as a value that is truthy and is no string.
ObjectValue == [t |-> "object", s |-> <<>>, n |-> 0]

\* A url of the demo, by its host name.
DemoUrl(hostname, path) == Url("https://" \o hostname \o path, TRUE, hostname)

\* What MockHttpClient.fetch ends in: it throws, or it returns a response.
FetchThrows(error) == [threw |-> TRUE, error |-> error, status |-> 0, html |-> <<>>]

FetchReturns(status, html) ==
  [threw |-> FALSE, error |-> NoError, status |-> status, html |-> html]

\* MockHttpClient.fetch, by the domain of the url (the host names of the
\* inputs are the names the mock looks for, so that domain.includes(name) is
\* equality here).  The pages of the 200 responses are left out: nothing but
\* extractContent reads them.
MockHttpClientFetch(url) ==
  CASE url.hostname = "paywall-news.com" -> FetchReturns(200, <<>>)
    [] url.hostname = "not-found.com" ->
         FetchReturns(404, <<"<","h","t","m","l",">","<","b","o","d","y",">","<","h","1",">","4","0","4"," ","N","o","t"," ","F","o","u","n","d","<","/","h","1",">","<","/","b","o","d","y",">","<","/","h","t","m","l",">">>)
    [] url.hostname = "rate-limited.com" ->
         FetchReturns(429, <<"<","h","t","m","l",">","<","b","o","d","y",">","<","h","1",">","T","o","o"," ","M","a","n","y"," ","R","e","q","u","e","s","t","s","<","/","h","1",">","<","/","b","o","d","y",">","<","/","h","t","m","l",">">>)
    [] url.hostname = "dns-error.com" ->
         FetchThrows(Thrown("Error", Str(<<"E","r","r","o","r">>), Str(<<"g","e","t","a","d","d","r","i","n","f","o"," ","E","N","O","T","F","O","U","N","D">>),
                            Str(<<"E","N","O","T","F","O","U","N","D">>), NoResponse, Undef))
    [] OTHER -> FetchReturns(200, <<>>)

\* The operation scrapeUrl hands to wrap: the fetch, then its error for a
\* status of 400 and above (an Error carrying the response and the page), then
\* the extracted content.
ScrapeOutcome(url) ==
  LET fetched == MockHttpClientFetch(url) IN
  IF fetched.threw THEN Reject(fetched.error)
  ELSE IF fetched.status >= 400
  THEN Reject(Thrown("Error", Str(<<"E","r","r","o","r">>), Str(<<"H","T","T","P"," ","E","r","r","o","r">>), Undef,
                     Response(fetched.status), Str(fetched.html)))
  ELSE Resolve("extracted")

ScrapeOperation(url) == Operation(0, NoError, ScrapeOutcome(url))

\* The operation scrapeUrls hands to wrapBatch:
\* () => scrapeUrl(url, { timeout }).then(result => result.data || result).
\* Its outcome is that of the scrapeUrl call it makes (ScrapeUrlReturns).
ScrapeUrlThen == Operation(0, NoError, Resolve("scrapeUrl(url).then"))

\* result.data || result: the data of a success envelope, else the envelope
\* itself, named here by its success flag and its kind of error.
DataOrResult(result) ==
  IF result.kind = "success" /\ result.data # ""
  THEN result.data
  ELSE "{ success: false, error: " \o result.error.type \o " }"

\* const testUrls = [ ... ] of testBatchProcessing
testUrls ==
  <<DemoUrl("good-site1.com", "/article1"),
    DemoUrl("good-site2.com", "/article2"),
    DemoUrl("paywall-news.com", "/premium"),
    DemoUrl("dns-error.com", "/missing"),
    DemoUrl("good-site3.com", "/article3"),
    DemoUrl("rate-limited.com", "/busy"),
    DemoUrl("good-site4.com", "/article4")>>

\* The outer call of the url at position k is call k; the scrapeUrl call it
\* makes is call ScrapeSlots + k.
ScrapeSlots == Len(testUrls)

InnerSlot(k) == ScrapeSlots + k

\* scrapeUrls(urls, { concurrency }): the operations are prepared and
\* wrapBatch is called with continueOnError and collectErrors on.
scrapeUrls(urls, concurrency) ==
  wrapBatch([p \in DOMAIN urls |->
               [url |-> urls[p], operation |-> ScrapeUrlThen, context |-> ObjectValue]],
            concurrency, TRUE, TRUE)

\* The outer calls whose operation has been invoked and has not yet called
\* scrapeUrl: the call is made in the same run, before anything else.
ScrapeUnstarted ==
  {k \in 1..ScrapeSlots : calls[k].pc = "operation" /\ calls[InnerSlot(k)].pc = "idle"}

\* The outer calls whose scrapeUrl has returned and whose then-callback has
\* not yet run.
ThenPending ==
  {k \in 1..ScrapeSlots : calls[k].pc = "operation" /\ calls[InnerSlot(k)].pc = "done"}

\* scrapeUrl(url, options): scraperErrorHandler.wrap(url, operation, context),
\* up to its first suspension.
scrapeUrl(k) ==
  /\ k \in ScrapeUnstarted
  /\ WrapEnter(InnerSlot(k), calls[k].url, ScrapeOperation(calls[k].url), ObjectValue)
  /\ UNCHANGED <<batch, test>>

\* scrapeUrl has returned its envelope: the then-callback gives result.data ||
\* result, the operation of the outer call resolves with it, and the outer
\* wrap goes on to its return.
ScrapeUrlReturns(k) ==
  /\ k \in ThenPending
  /\ calls[InnerSlot(k)].ret.kind # "raised"
  /\ WrapSuccess(k, calls[k], DataOrResult(calls[InnerSlot(k)].ret))
  /\ UNCHANGED <<now, options, batch, test>>

\* Nothing else runs while a call or a callback is due in the current run.
ScrapeQuiet == ScrapeUnstarted = {} /\ ThenPending = {} /\ CallbacksPending = {}

ScrapeMapItem == ScrapeUnstarted = {} /\ BatchMapItem

ScrapeAwaits == ScrapeUnstarted = {} /\ BatchAwaits

\* The fetch of a scrapeUrl call settles.
ScrapeFetchSettles(k) ==
  /\ ScrapeQuiet
  /\ OperationSettles(InnerSlot(k))
  /\ UNCHANGED <<batch, test>>

ScrapeBackoffElapses(k) ==
  /\ ScrapeQuiet
  /\ BackoffElapses(InnerSlot(k))
  /\ UNCHANGED <<batch, test>>

\* ---------------------------------------------------- scrapeUrls, as a run

\* Besides the list of the test, the lists of at most this many demo urls.
MaxUrls == 1

DemoUrls ==
  {DemoUrl("example.com", "/article1"), DemoUrl("paywall-news.com", "/premium-article"),
   DemoUrl("not-found.com", "/missing-page"), DemoUrl("rate-limited.com", "/popular-article"),
   DemoUrl("dns-error.com", "/article")}

ScrapeInputs == {testUrls} \cup SeqsUpTo(DemoUrls, MaxUrls)

\* const { concurrency = 3, timeout = 10000 } = options; the test gives 3.
ScrapeConcurrency == 3

\* export const scraperErrorHandler = new ScrapingErrorHandler()
ScrapeInit ==
  /\ failures = EmptyMap
  /\ lastFailure = EmptyMap
  /\ now = 1
  /\ options = constructor(GivenOptions(FALSE, 0, FALSE, TRUE))
  /\ calls = [c \in 1..(2 * ScrapeSlots) |-> IdleCall]
  /\ batch = IdleBatch
  /\ test = IdleTest

CallScrapeUrls == \E urls \in ScrapeInputs : scrapeUrls(urls, ScrapeConcurrency)

ScrapeNext ==
  \/ CallScrapeUrls
  \/ ScrapeMapItem
  \/ ScrapeAwaits
  \/ \E k \in 1..ScrapeSlots : scrapeUrl(k)
  \/ \E k \in 1..ScrapeSlots : ScrapeFetchSettles(k)
  \/ \E k \in 1..ScrapeSlots : ScrapeBackoffElapses(k)
  \/ \E k \in 1..ScrapeSlots : ScrapeUrlReturns(k)
  \/ \E k \in 1..ScrapeSlots : BatchItemSettles(k)
  \/ BatchGroupSettled

SpecScrape == ScrapeInit /\ [][ScrapeNext]_vars

\* --------------------------------------- resetCircuitBreaker, as a run

\* A second domain.
UrlB == Url("https://y.com/b", TRUE, "y.com")

\* The domains a reset is asked for: two that calls are made to, and ''.
ResetDomains == {"x.com", "y.com", ""}

\* The status checks of testCircuitBreaker, for any domain and for a reset
\* without a domain: the status is read, the breaker is reset, the status is
\* read again.
IdleResetCheck ==
  [pc |-> "calling", given |-> FALSE, domain |-> "", status |-> EmptyMap,
   resetStatus |-> EmptyMap]

\* const status = handler.getCircuitBreakerStatus()
\* handler.resetCircuitBreaker(domain)
\* const resetStatus = handler.getCircuitBreakerStatus()
ResetAndCheck(given, domain) ==
  /\ test.pc = "calling"
  /\ calls[1].pc = "idle"
  /\ resetCircuitBreaker(given, domain)
  /\ test' = [pc |-> "checked", given |-> given, domain |-> domain,
              status |-> getCircuitBreakerStatus.failures,
              resetStatus |-> failures']
  /\ UNCHANGED batch

\* The caller goes back to making calls.
ResetCheckDone ==
  /\ test.pc = "checked"
  /\ test' = IdleResetCheck
  /\ UNCHANGED <<failures, lastFailure, now, options, calls, batch>>

ResetOperations == {alwaysFails, Operation(0, NoError, Resolve("A"))}

\* The handler retries nothing: maxRetries: 0.
ResetOptionInputs == {WithLogErrors(GivenOptions(TRUE, 0, TRUE, TRUE), FALSE)}

ResetInit ==
  /\ failures = EmptyMap
  /\ lastFailure = EmptyMap
  /\ now = 1
  /\ options \in {constructor(given) : given \in ResetOptionInputs}
  /\ calls = [c \in CallIds |-> IdleCall]
  /\ batch = IdleBatch
  /\ test = IdleResetCheck

ResetCallWrap ==
  /\ test.pc = "calling"
  /\ \E url \in {UrlA, UrlB}, operation \in ResetOperations :
       WrapEnter(1, url, operation, Undef)
  /\ UNCHANGED <<batch, test>>

ResetNext ==
  \/ ResetCallWrap
  \/ Settle
  \/ Resume
  \/ Clock
  \/ \E given \in BOOLEAN, domain \in ResetDomains : ResetAndCheck(given, domain)
  \/ ResetCheckDone

SpecReset == ResetInit /\ [][ResetNext]_vars

\* ------------------------------------------- testErrorClassification, as a run

\* The response of the API route before the handler has answered: no status
\* has been set on the event.
NoHttp == [sent |-> FALSE, statusSet |-> FALSE, status |-> 200]

\* statusMap[errorType] || 500
getHttpStatusForErrorType(errorType) ==
  CASE errorType = "http_error" -> 502
    [] errorType = "paywall" -> 402
    [] errorType = "javascript_required" -> 422
    [] errorType = "network_error" -> 503
    [] errorType = "dns_error" -> 503
    [] errorType = "timeout" -> 504
    [] errorType = "parsing_error" -> 502
    [] errorType = "rate_limited" -> 429
    [] errorType = "unknown" -> 500
    [] OTHER -> 500

\* The failure branch of the route: setResponseStatus is called only for a
\* status of 500 and above; otherwise the event keeps the status it had.
RouteFailure(result) ==
  LET httpStatus == getHttpStatusForErrorType(result.error.type)
  IN [sent |-> TRUE,
      statusSet |-> httpStatus >= 500,
      status |-> IF httpStatus >= 500 THEN httpStatus ELSE NoHttp.status,
      success |-> FALSE,
      error |-> result.error]

\* A test case: { error, response, content }.
Case(error, response, content) ==
  [pc |-> "case", error |-> error, response |-> response, content |-> content,
   result |-> Classified("none", <<>>), structured |-> NoErrorJSON,
   http |-> NoHttp @@ [success |-> TRUE, error |-> NoErrorJSON]]

\* error: { message, code }
ErrorObject(message, code) == Thrown("object", Undef, message, code, NoResponse, Undef)

\* error: null, or an object whose message and code are those of the test
\* cases, one for every indicator that has none, and ones that match no rule.
CaseErrors ==
  {ThrownNull}
  \cup {ErrorObject(message, code) :
          message \in {Undef, Str(<<"g","e","t","a","d","d","r","i","n","f","o"," ","E","N","O","T","F","O","U","N","D">>), Str(<<"c","o","n","n","e","c","t"," ","E","C","O","N","N","R","E","F","U","S","E","D">>),
                       Str(<<"N","e","t","w","o","r","k"," ","e","r","r","o","r">>), Str(<<"R","e","q","u","e","s","t"," ","t","i","m","e","o","u","t">>),
                       Str(<<"S","o","m","e","t","h","i","n","g"," ","f","a","i","l","e","d">>)},
          code \in {Undef, Str(<<"E","N","O","T","F","O","U","N","D">>), Str(<<"E","N","O","D","A","T","A">>), Str(<<"E","C","O","N","N","R","E","F","U","S","E","D">>),
                    Str(<<"E","C","O","N","N","R","E","S","E","T">>), Str(<<"E","T","I","M","E","D","O","U","T">>), Str(<<"E","T","I","M","E","O","U","T">>),
                    Str(<<"E","O","T","H","E","R">>)}}

\* { message: 'Request timeout', code: 'ETIMEDOUT' }
TimeoutCaseError == ErrorObject(Str(<<"R","e","q","u","e","s","t"," ","t","i","m","e","o","u","t">>), Str(<<"E","T","I","M","E","D","O","U","T">>))

\* { message: 'getaddrinfo ENOTFOUND', code: 'ENOTFOUND' }
DnsCaseError == ErrorObject(Str(<<"g","e","t","a","d","d","r","i","n","f","o"," ","E","N","O","T","F","O","U","N","D">>), Str(<<"E","N","O","T","F","O","U","N","D">>))

\* content: '', the pages of the test cases, a page with a paywall phrase and
\* a JavaScript phrase, a short text, a short page with a doctype, and texts
\* of 99 and of 100 characters that match nothing.
PaywallPage == <<"<","h","t","m","l",">","<","b","o","d","y",">","<","h","1",">","A","r","t","i","c","l","e","<","/","h","1",">","<","p",">","S","u","b","s","c","r","i","b","e"," ","n","o","w"," ","t","o"," ","r","e","a","d"," ","m","o","r","e",".",".",".","<","/","p",">","<","/","b","o","d","y",">","<","/","h","t","m","l",">">>

JavaScriptPage ==
  <<"<","h","t","m","l",">","<","b","o","d","y",">","<","p",">","P","l","e","a","s","e"," ","e","n","a","b","l","e"," ","J","a","v","a","S","c","r","i","p","t"," ","t","o"," ","v","i","e","w"," ","t","h","i","s"," ","c","o","n","t","e","n","t","<","/","p",">","<","/","b","o","d","y",">","<","/","h","t","m","l",">">>

BothPage == <<"<","p",">","P","l","e","a","s","e"," ","e","n","a","b","l","e"," ","J","a","v","a","S","c","r","i","p","t","<","/","p",">","<","p",">","S","i","g","n"," ","i","n"," ","t","o"," ","r","e","a","d"," ","t","h","i","s"," ","P","r","e","m","i","u","m"," ","C","o","n","t","e","n","t","<","/","p",">">>

CaseContents ==
  {Str(<<>>), Str(PaywallPage), Str(JavaScriptPage), Str(BothPage),
   Str(<<" "," ","<","p",">","H","e","l","l","o","<","/","p",">"," "," ">>), Str(<<"<","!","D","O","C","T","Y","P","E"," ","h","t","m","l",">","<","p",">","H","e","l","l","o","<","/","p",">">>),
   Str([i \in 1..99 |-> "x"]), Str([i \in 1..100 |-> "x"])}

\* response: null, or { status }
CaseResponses ==
  {NoResponse}
  \cup {Response(status) : status \in {200, 400, 403, 404, 429, 499, 500, 503, 599}}

\* Every case of errors, responses and contents, and besides them every
\* status from 399 to 600 with a few of the errors and contents.
Cases ==
  {Case(error, response, content) :
     error \in CaseErrors, response \in CaseResponses, content \in CaseContents}
  \cup {Case(error, Response(status), content) :
          error \in {ThrownNull, DnsCaseError, TimeoutCaseError},
          status \in 399..600,
          content \in {Str(<<>>), Str(PaywallPage), Str([i \in 1..100 |-> "x"])}}

\* const result = classifyError(error, response, content)
ClassifyCase ==
  /\ test.pc = "case"
  /\ test' = [test EXCEPT
       !.pc = "classified",
       !.result = classifyError(test.error, test.response, test.content)]
  /\ UNCHANGED <<failures, lastFailure, now, options, calls, batch>>

\* new ScrapingError(classification.type, classification.message, error, ...)
\* and its toJSON().
StructureClassified ==
  /\ test.pc = "classified"
  /\ test.result.ok
  /\ test' = [test EXCEPT
       !.pc = "structured",
       !.structured = toJSON(ScrapingError(test.result.type, test.result.message,
                                           test.error, "", Undef))]
  /\ UNCHANGED <<failures, lastFailure, now, options, calls, batch>>

\* testErrorStructure: new ScrapingError(type, 'Paywall detected on site',
\* new Error('Original error'), ...) and its toJSON(), for any type.
testErrorStructure(type) ==
  /\ test.pc = "case"
  /\ test' = [test EXCEPT
       !.pc = "structured",
       !.structured =
          toJSON(ScrapingError(type, <<"P","a","y","w","a","l","l"," ","d","e","t","e","c","t","e","d"," ","o","n"," ","s","i","t","e">>,
                               Thrown("Error", Str(<<"E","r","r","o","r">>), Str(<<"O","r","i","g","i","n","a","l"," ","e","r","r","o","r">>),
                                      Undef, NoResponse, Undef),
                               "example.com", Undef))]
  /\ UNCHANGED <<failures, lastFailure, now, options, calls, batch>>

\* The route answers for a scrape that failed with the structured error:
\* result = { success: false, error, fallback }.
RespondFailure ==
  /\ test.pc = "structured"
  /\ test' = [test EXCEPT
       !.pc = "responded",
       !.http = RouteFailure([success |-> FALSE, error |-> test.structured])]
  /\ UNCHANGED <<failures, lastFailure, now, options, calls, batch>>

ClassifyInit ==
  /\ failures = EmptyMap
  /\ lastFailure = EmptyMap
  /\ now = 1
  /\ options = constructor(GivenOptions(FALSE, 0, FALSE, TRUE))
  /\ calls = [c \in CallIds |-> IdleCall]
  /\ batch = IdleBatch
  /\ test \in Cases

ClassifyNext ==
  \/ ClassifyCase
  \/ StructureClassified
  \/ \E type \in ErrorTypes : testErrorStructure(type)
  \/ RespondFailure

SpecClassify == ClassifyInit /\ [][ClassifyNext]_vars

\* Cases with values of any type: an error that is null, undefined, a string,
\* an Error or an object whose message or code is a number; a response that is
\* absent or has a status; a content that is absent, null, a string, a number
\* or an object.
AnyCases ==
  {Case(error, response, content) :
     error \in {ThrownNull, ThrownUndefined, ErrString, ErrTimeout, ErrDns, ErrBadMessage,
                ErrorObject(Str(<<"R","e","q","u","e","s","t"," ","t","i","m","e","o","u","t">>), Num(110))},
     response \in {NoResponse} \cup {Response(status) : status \in {0, 200, 404, 429, 500}},
     content \in {Undef, Null, Str(<<>>), Str(PaywallPage), Num(0), Num(42), ObjectValue}}

TotalInit ==
  /\ failures = EmptyMap
  /\ lastFailure = EmptyMap
  /\ now = 1
  /\ options = constructor(GivenOptions(FALSE, 0, FALSE, TRUE))
  /\ calls = [c \in CallIds |-> IdleCall]
  /\ batch = IdleBatch
  /\ test \in AnyCases

SpecTotal == TotalInit /\ [][ClassifyNext]_vars

\* ------------------------------- wrap calls in flight together, and a reset

\* What the callers have seen of x.com since the breaker entry was last
\* cleared: the failures recorded for it since the latest reset or success,
\* and the calls that were in flight at the latest reset and have not ended.
\* endedAfter counts those that have; cleared is the count the reset found.
IdleWatch ==
  [pc |-> "watching", sinceClear |-> 0, inFlight |-> {}, endedAfter |-> 0, cleared |-> 0]

\* Call c has gone one step; when that step was its return, the watch takes
\* note of what wrap did to the breaker on its way out (recordSuccess, or
\* recordFailure for the kinds that count).
Watches(c) ==
  test' =
    IF calls'[c].pc # "done" THEN test
    ELSE [test EXCEPT
           !.inFlight = @ \ {c},
           !.endedAfter = IF c \in test.inFlight THEN @ + 1 ELSE @,
           !.sinceClear =
              IF ~options.enableCircuitBreaker THEN @
              ELSE IF calls'[c].ret.kind = "success" THEN 0
              ELSE IF calls'[c].ret.error.type \in {"http_error", "network_error", "dns_error"}
              THEN @ + 1
              ELSE @]

\* The callers' operations: one that fails for good, and two that fail once
\* with a retryable error and then resolve or fail for good.
InFlightOperations ==
  {Operation(0, NoError, Reject(ErrDns)),
   Operation(1, ErrNetwork, Resolve("A")),
   Operation(1, ErrNetwork, Reject(ErrDns))}

\* Two callers, neither waiting for the other, call wrap for x.com.
InFlightCallWrap ==
  /\ \E c \in {1, 2}, operation \in InFlightOperations :
       WrapEnter(c, UrlA, operation, Undef) /\ Watches(c)
  /\ UNCHANGED batch

InFlightSettle ==
  /\ \E c \in CallIds : OperationSettles(c) /\ Watches(c)
  /\ UNCHANGED batch

InFlightBackoff ==
  /\ \E c \in CallIds : BackoffElapses(c) /\ Watches(c)
  /\ UNCHANGED batch

\* handler.resetCircuitBreaker('x.com'), at any moment.
InFlightReset ==
  /\ resetCircuitBreaker(TRUE, "x.com")
  /\ test' = [test EXCEPT
       !.sinceClear = 0,
       !.inFlight = {c \in CallIds : calls[c].pc \in {"operation", "backoff"}},
       !.endedAfter = 0,
       !.cleared = Get(failures, "x.com")]
  /\ UNCHANGED batch

\* The handler of the tests: maxRetries: 1, enableCircuitBreaker: true.
InFlightInit ==
  /\ failures = EmptyMap
  /\ lastFailure = EmptyMap
  /\ now = 1
  /\ options = constructor(WithLogErrors(GivenOptions(TRUE, 1, TRUE, TRUE), FALSE))
  /\ calls = [c \in CallIds |-> IdleCall]
  /\ batch = IdleBatch
  /\ test = IdleWatch

InFlightNext ==
  \/ InFlightCallWrap
  \/ InFlightSettle
  \/ InFlightBackoff
  \/ Resume
  \/ InFlightReset

SpecInFlight == InFlightInit /\ [][InFlightNext]_vars

\* ------------------------- handlers with their own options, one breaker

\* new ScrapingErrorHandler(options): the caller goes on with a handler of
\* other options.  The breaker is the module's one circuitBreaker, which every
\* handler shares, so its state stays as it is.
NewHandler(given) ==
  /\ calls[1].pc = "idle"
  /\ options' = constructor(given)
  /\ options' # options
  /\ UNCHANGED <<failures, lastFailure, now, calls, batch, test>>

\* The caller awaits each wrap; its urls are one that parses and one that
\* does not, its context is absent or an object that holds itself.
HandlersCallWrap ==
  /\ \E url \in {UrlA, UrlUnparsable},
        operation \in {Operation(0, NoError, Resolve("A")),
                       Operation(0, NoError, Reject(ErrDns)),
                       Operation(1, ErrNetwork, Resolve("A"))} :
       \E context \in {Undef, Circular} : WrapEnter(1, url, operation, context)
  /\ UNCHANGED <<batch, test>>

\* The options of the handlers: those of OptionInputs, and one with
\* logErrors: false.
HandlerOptionInputs ==
  OptionInputs \cup {WithLogErrors(GivenOptions(TRUE, 1, TRUE, TRUE), FALSE)}

HandlersInit == InitWith(HandlerOptionInputs)

HandlersNext ==
  \/ HandlersCallWrap
  \/ Settle
  \/ Backoff
  \/ Resume
  \/ \E given \in HandlerOptionInputs : NewHandler(given)

SpecHandlers == HandlersInit /\ [][HandlersNext]_vars

\* ------------------------------------------------------------------ claims

\* The kind each rejection value of the inputs is expected to be reported as
\* (a value that makes the classifier or the property read throw ends as
\* unknown).
ExpectedKind(value) ==
  CASE value = ErrNetwork -> "network_error"
    [] value = ErrDns -> "dns_error"
    [] value = ErrRateLimited -> "rate_limited"
    [] value = ErrNotFound -> "http_error"
    [] value = ErrTimeout -> "timeout"
    [] value = ErrPaywall -> "paywall"
    [] OTHER -> "unknown"

RetryableValues == {ErrNetwork, ErrRateLimited, ErrTimeout}

\* Call c returns in this step.
Finishes(c) == calls[c].pc # "done" /\ calls'[c].pc = "done"

\* Call c is entered in this step.
Enters(c) == calls[c].pc = "idle" /\ calls'[c].pc # "idle"

\* C1: wrap never throws or rejects: whatever the operation resolves or
\* rejects with (an Error, null, undefined, a string, a plain object), a
\* finished call holds an envelope whose success flag is true or false.
C1_WrapNeverThrows ==
  \A c \in CallIds :
    calls[c].pc = "done" => calls[c].ret.kind \in {"success", "failure"}

\* A call whose operation rejected with null has returned a failure envelope.
C1_Witness ==
  \E c \in CallIds :
    /\ calls[c].pc = "done"
    /\ calls[c].invoked = 1
    /\ OutcomeAt(calls[c].operation, 1) = Reject(ThrownNull)
    /\ calls[c].ret.kind = "failure"
    /\ calls[c].ret.error.type = "unknown"

\* C2: a call entered while the breaker is enabled and canAttempt(domain) is
\* false returns at once, without invoking the operation and without any
\* wait, a failure envelope of kind http_error whose message says the breaker
\* is open.
C2_BreakerOpenShortCircuits ==
  [][\A c \in CallIds :
       (Enters(c) /\ options.enableCircuitBreaker /\ ~canAttempt(calls'[c].domain))
       => /\ calls'[c].pc = "done"
          /\ calls'[c].invoked = 0
          /\ calls'[c].waits = 0
          /\ calls'[c].ret.kind = "failure"
          /\ calls'[c].ret.error.type = "http_error"
          /\ includes(calls'[c].ret.error.message, <<"C","i","r","c","u","i","t"," ","b","r","e","a","k","e","r"," ","o","p","e","n">>)]_vars

\* A call has been turned away by the open breaker.
C2_Witness ==
  \E c \in CallIds :
    /\ calls[c].pc = "done"
    /\ calls[c].invoked = 0
    /\ calls[c].ret.kind = "failure"
    /\ calls[c].ret.error.message = BreakerOpenMessage
    /\ Get(failures, calls[c].domain) > failureThreshold

\* C3: for every domain, while the count of consecutive recorded failures (no
\* success or reset since) is at or above failureThreshold, canAttempt is false
\* from the moment of the last failure until at least timeoutMs has passed
\* since it; a domain whose count is below the threshold is always admissible.
C3_BreakerTiming ==
  \A d \in DOMAIN failures \cup {"x.com"} :
    LET count == Get(failures, d)
        elapsed == now - Get(lastFailure, d)
    IN /\ count < failureThreshold => canAttempt(d)
       /\ (count >= failureThreshold /\ elapsed < timeoutMs) => ~canAttempt(d)

\* A domain at the threshold is admissible again, the timeout having passed
\* since its last failure.
C3_Witness ==
  \E d \in DOMAIN failures :
    /\ failures[d] = failureThreshold
    /\ now - lastFailure[d] = timeoutMs + 1
    /\ canAttempt(d)

\* C4: in testCircuitBreaker, for every maxRetries and every operation that
\* always fails in a kind that counts against the domain, calls 1 to 5 each
\* invoke the operation and return a failure envelope; call 6, made within
\* timeoutMs of the fifth failure, returns a failure envelope without invoking
\* the operation; the status read afterwards shows at least 5 failures.
C4_SixthCallShortCircuits ==
  LET log == test.log IN
  /\ \A k \in DOMAIN log :
       k <= failureThreshold => log[k].invoked >= 1 /\ log[k].kind = "failure"
  /\ (Len(log) >= 6 /\ log[6].timestamp - log[5].timestamp <= timeoutMs)
     => log[6].invoked = 0 /\ log[6].kind = "failure"
  /\ test.pc = "finished" => test.domainBlocked

\* The test has finished with maxRetries = 1: five calls of two invocations
\* each, a sixth call of none, and the domain reported blocked.
C4_Witness ==
  /\ test.pc = "finished"
  /\ options.maxRetries = 1
  /\ test.operation = alwaysFails
  /\ Len(test.log) = 6
  /\ \A k \in 1..5 : test.log[k].invoked = 2 /\ test.log[k].printed = "network_error"
  /\ test.log[6].invoked = 0
  /\ test.log[6].printed = "http_error"
  /\ test.domainBlocked

\* C5: a call that ends in failure adds exactly one to its domain's failure
\* count, whatever the number of attempts, when the breaker is enabled and the
\* final kind is http_error, network_error or dns_error; otherwise it leaves
\* the breaker state as it was.
C5_FailureRecordedOnce ==
  [][\A c \in CallIds :
       (Finishes(c) /\ calls'[c].ret.kind = "failure")
       => IF /\ options.enableCircuitBreaker
             /\ calls'[c].ret.error.type \in {"http_error", "network_error", "dns_error"}
          THEN /\ Get(failures', calls'[c].domain) = Get(failures, calls'[c].domain) + 1
               /\ \A d \in (DOMAIN failures) \ {calls'[c].domain} :
                    d \in DOMAIN failures' /\ failures'[d] = failures[d]
          ELSE failures' = failures /\ lastFailure' = lastFailure]_vars

\* A call that made three attempts and ended in network_error stands at a
\* count it raised.
C5_Witness ==
  \E c \in CallIds :
    /\ calls[c].pc = "done"
    /\ calls[c].invoked = 3
    /\ calls[c].ret.error.type = "network_error"
    /\ options.enableCircuitBreaker
    /\ Get(failures, calls[c].domain) = 2

\* C6: a call that ends in success with the breaker enabled deletes the
\* domain's entry: no failure count, no last-failure timestamp, and
\* canAttempt(domain) is true.
C6_SuccessClearsEntry ==
  [][\A c \in CallIds :
       (Finishes(c) /\ calls'[c].ret.kind = "success" /\ options.enableCircuitBreaker)
       => /\ calls'[c].domain \notin DOMAIN failures'
          /\ calls'[c].domain \notin DOMAIN lastFailure'
          /\ canAttempt(calls[c].domain)']_vars

\* With the breaker enabled, a call whose operation failed once and then
\* resolved has returned its success envelope, and its domain has no entry.
C6_Witness ==
  \E c \in CallIds :
    /\ calls[c].pc = "done"
    /\ calls[c].ret.kind = "success"
    /\ calls[c].operation = Operation(1, ErrNetwork, Resolve("A"))
    /\ calls[c].invoked = 2
    /\ options.enableCircuitBreaker
    /\ calls[c].domain \notin DOMAIN failures
    /\ calls[c].domain \notin DOMAIN lastFailure

\* C7: an operation that fails with a retryable error k times, k <=
\* maxRetries, and then succeeds is invoked exactly k+1 times, and the call
\* returns the success value.
C7_RetryUntilSuccess ==
  \A c \in CallIds :
    LET op == calls[c].operation IN
    (/\ calls[c].invoked >= 1
     /\ op.failsFirst <= options.maxRetries
     /\ (op.failsFirst > 0 => op.err \in RetryableValues)
     /\ op.final = Resolve("A"))
    => /\ calls[c].invoked <= op.failsFirst + 1
       /\ calls[c].pc = "done"
          => /\ calls[c].invoked = op.failsFirst + 1
             /\ calls[c].ret.kind = "success"
             /\ calls[c].ret.data = "A"

\* Two retryable failures, then success, with maxRetries = 3: three invocations.
C7_Witness ==
  \E c \in CallIds :
    /\ calls[c].pc = "done"
    /\ calls[c].operation = Operation(2, ErrNetwork, Resolve("A"))
    /\ options.maxRetries = 3
    /\ calls[c].invoked = 3
    /\ calls[c].ret.kind = "success"

\* C8: an operation whose failure is not retryable is invoked exactly once,
\* for every maxRetries, and no backoff wait follows the failure.
C8_NonRetryableOnce ==
  \A c \in CallIds :
    LET first == OutcomeAt(calls[c].operation, 1) IN
    (/\ calls[c].invoked >= 1
     /\ first.tag = "reject"
     /\ first.value \notin RetryableValues)
    => /\ calls[c].invoked = 1
       /\ calls[c].waits = 0
       /\ calls[c].pc # "backoff"

\* A dns_error call with maxRetries = 3 has ended after one invocation.
C8_Witness ==
  \E c \in CallIds :
    /\ calls[c].pc = "done"
    /\ OutcomeAt(calls[c].operation, 1) = Reject(ErrDns)
    /\ options.maxRetries = 3
    /\ calls[c].invoked = 1
    /\ calls[c].ret.error.type = "dns_error"
    /\ ~calls[c].ret.error.canRetry

\* Every invocation up to the n-th of the operation rejects with a retryable
\* error.
FailsRetryablyUpTo(op, n) ==
  \A i \in 1..n :
    OutcomeAt(op, i).tag = "reject" /\ OutcomeAt(op, i).value \in RetryableValues

\* C9: one retry sequence invokes the operation at most maxRetries+1 times,
\* and exactly maxRetries+1 times when every attempt fails with a retryable
\* error; the error reported is the one of the last attempt; with maxRetries
\* = 0 there is one attempt and no wait.
C9_AttemptsBounded ==
  \A c \in CallIds :
    LET call == calls[c]
        lastOutcome == OutcomeAt(call.operation, call.invoked)
    IN
    /\ call.invoked <= options.maxRetries + 1
    /\ (options.maxRetries = 0 /\ call.pc # "idle") => call.waits = 0
    /\ (call.pc = "done" /\ call.invoked >= 1)
       => /\ call.waits = call.invoked - 1
          /\ FailsRetryablyUpTo(call.operation, options.maxRetries + 1)
             => call.invoked = options.maxRetries + 1
          /\ lastOutcome.tag = "reject"
             => /\ call.ret.kind = "failure"
                /\ call.ret.error.type = ExpectedKind(lastOutcome.value)

\* An operation failing once with rate_limited and then with network_error
\* for good, under maxRetries = 2: three invocations, network_error reported.
C9_Witness ==
  \E c \in CallIds :
    /\ calls[c].pc = "done"
    /\ calls[c].operation = Operation(1, ErrRateLimited, Reject(ErrNetwork))
    /\ options.maxRetries = 2
    /\ calls[c].invoked = 3
    /\ calls[c].waits = 2
    /\ calls[c].ret.error.type = "network_error"

\* C10: the summary wrapBatch returns has total = N and succeeded + failed = N,
\* N the number of items, for every concurrency and every combination of
\* continueOnError and collectErrors.
C10_SummaryAddsUp ==
  batch.ret.returned
  => /\ batch.ret.total = Len(batch.items)
     /\ batch.ret.succeeded + batch.ret.failed = Len(batch.items)

\* C11: wrapBatch on an empty list returns empty results and errors, total 0
\* and successRate 0 (a number, not the outcome of 0 / 0); on N > 0 items
\* successRate is succeeded / total.
C11_SuccessRateDefined ==
  batch.ret.returned
  => /\ batch.ret.successRate.num = batch.ret.succeeded
     /\ batch.ret.successRate.den = batch.ret.total
     /\ Len(batch.items) = 0
        => /\ batch.results = <<>>
           /\ batch.errors = <<>>
           /\ batch.ret.total = 0
           /\ ~batch.ret.successRate.nan
           /\ batch.ret.successRate.num = 0

\* C12: with continueOnError off, wrapBatch does not return normally once an
\* item has failed: a batch that returned its summary had every item succeed.
C12_FailFastRaises ==
  (batch.ret.returned /\ ~batch.continueOnError)
  => Len(batch.results) = Len(batch.items)

\* The wrap calls of the batch that have been started and whose callback has
\* not yet resumed.
Started == {k \in CallIds : calls[k].pc # "idle"}

\* The positions of the group that begins after i items, for concurrency C.
GroupAfter(i, C, N) == {k \in 1..N : i < k /\ k <= i + C}

\* C13: with concurrency C >= 1 the items are taken in consecutive groups of at
\* most C; a call is started only for an item of the current group, the loop
\* moves on to the next group only when every item of the current one has
\* settled, and at no time are more than C calls of the batch in flight.
C13_GroupsOfAtMostC ==
  [][batch'.concurrency >= 1
     => LET C == batch'.concurrency
            N == Len(batch'.items)
        IN /\ Cardinality(Started') <= C
           /\ batch'.pc \in {"mapping", "waiting"}
              => /\ Range(batch'.group) = GroupAfter(batch'.i, C, N)
                 /\ Started' \subseteq Range(batch'.group)
           /\ \A k \in CallIds : Enters(k) => k \in GroupAfter(batch.i, C, N)
           /\ batch'.i # batch.i
              => /\ batch'.i = batch.i + C
                 /\ batch.settled = GroupAfter(batch.i, C, N)
                 /\ Started = {}]_vars

\* Three items with concurrency 2: the third is in flight alone, the first
\* two having settled.
C13_Witness ==
  /\ batch.concurrency = 2
  /\ Len(batch.items) = 3
  /\ batch.i = 2
  /\ batch.collectErrors
  /\ Len(batch.results) + Len(batch.errors) = 2
  /\ Started = {3}
  /\ calls[3].pc = "operation"

\* The items of a batch whose operation resolves.
Succeeding(items) ==
  {k \in DOMAIN items : OutcomeAt(items[k].operation, 1).tag = "resolve"}

DesignedToFail == {"paywall-news.com", "dns-error.com", "rate-limited.com"}

\* C15: the summary scrapeUrls returns counts every url whose scrape fails as
\* failed: total is the number of urls, failed the number of paywall,
\* dns-error and rate-limited urls, succeeded the number of the others; for
\* the seven urls of the test, succeeded = 4, failed = 3 and total = 7.
C15_ScrapeUrlsCountsFailures ==
  batch.ret.returned
  => LET failing == {k \in DOMAIN batch.items :
                       batch.items[k].url.hostname \in DesignedToFail}
     IN /\ batch.ret.total = Len(batch.items)
        /\ batch.ret.failed = Cardinality(failing)
        /\ batch.ret.succeeded = Len(batch.items) - Cardinality(failing)
        /\ Len(batch.items) = 7 => batch.ret.succeeded = 4 /\ batch.ret.failed = 3

\* C16: after resetCircuitBreaker(d), canAttempt(d) is true and d is not in
\* the failures of the status, whatever the count of d was; after
\* resetCircuitBreaker() this is so for every domain.
C16_ResetClears ==
  test.pc = "checked"
  => IF test.given
     THEN /\ canAttempt(test.domain)
          /\ test.domain \notin DOMAIN test.resetStatus
     ELSE \A d \in DOMAIN test.status \cup ResetDomains :
            /\ canAttempt(d)
            /\ d \notin DOMAIN test.resetStatus

\* x.com stood at the threshold, no time having passed since its failures;
\* it has been reset, and y.com keeps its count.
C16_Witness ==
  /\ test.pc = "checked"
  /\ test.given
  /\ test.domain = "x.com"
  /\ Get(test.status, "x.com") >= failureThreshold
  /\ now = 1
  /\ Get(test.resetStatus, "y.com") > 0
  /\ canAttempt("x.com")

\* C17: a structured error has canRetry true exactly when its kind is
\* network_error, timeout or rate_limited, and false for http_error, paywall,
\* javascript_required, dns_error, parsing_error and unknown.
C17_RetryableKinds ==
  test.pc = "structured"
  => LET error == test.structured IN
     /\ error.type \in {"network_error", "timeout", "rate_limited"} => error.canRetry
     /\ error.type \in {"http_error", "paywall", "javascript_required", "dns_error",
                        "parsing_error", "unknown"} => ~error.canRetry
     /\ error.type \in ErrorTypes

\* A dns_error built from a classification: it is not retryable.
C17_Witness ==
  /\ test.pc = "structured"
  /\ test.result.ok
  /\ test.result.type = "dns_error"
  /\ test.structured.type = "dns_error"
  /\ ~test.structured.canRetry

\* The status of the case's response when it is a number, else 0.
CaseStatus == IF test.response.t = "object" /\ test.response.status.t = "number"
              THEN test.response.status.n ELSE 0

\* C18: the response status decides before anything else: 429 gives
\* rate_limited, every status from 500 to 599 gives http_error and every
\* status from 400 to 499 other than 429 gives http_error, whatever the error
\* and the content are.
C18_StatusDecidesFirst ==
  test.pc = "classified"
  => /\ CaseStatus = 429 => test.result.ok /\ test.result.type = "rate_limited"
     /\ CaseStatus \in 500..599 => test.result.ok /\ test.result.type = "http_error"
     /\ CaseStatus \in (400..499) \ {429} =>
          test.result.ok /\ test.result.type = "http_error"

\* A 503 that comes with a DNS error and a paywall page is an http_error.
C18_Witness ==
  /\ test.pc = "classified"
  /\ test.error = DnsCaseError
  /\ test.response = Response(503)
  /\ test.content = Str(PaywallPage)
  /\ test.result.type = "http_error"

\* The lower-cased text of a message or a code, '' when there is none.
Lowered(value) == IF value.t = "string" THEN toLowerCase(value.s) ELSE <<>>

\* The case has an error whose message holds one of the words or whose code
\* is one of the codes.
Indicated(words, codes) ==
  /\ test.error.shape # "null"
  /\ \/ \E word \in words : includes(Lowered(test.error.message), word)
     \/ Lowered(test.error.code) \in codes

\* The case's content holds one of the phrases, in any letter case.
Holds(phrases) == \E phrase \in phrases : includes(toLowerCase(test.content.s), phrase)

\* The kind that the precedence of C19 gives to the case.
KindByPrecedence ==
  IF CaseStatus = 429 THEN "rate_limited"
  ELSE IF CaseStatus >= 400 THEN "http_error"
  ELSE IF Indicated({<<"g","e","t","a","d","d","r","i","n","f","o">>}, {<<"e","n","o","t","f","o","u","n","d">>, <<"e","n","o","d","a","t","a">>}) THEN "dns_error"
  ELSE IF Indicated({<<"c","o","n","n","e","c","t">>, <<"n","e","t","w","o","r","k">>},
                    {<<"e","c","o","n","n","r","e","f","u","s","e","d">>, <<"e","c","o","n","n","r","e","s","e","t">>, <<"e","t","i","m","e","d","o","u","t">>})
  THEN "network_error"
  ELSE IF Indicated({<<"t","i","m","e","o","u","t">>}, {<<"e","t","i","m","e","o","u","t">>}) THEN "timeout"
  ELSE IF test.content.s = <<>> THEN "unknown"
  ELSE IF Holds(PAYWALL_INDICATORS) THEN "paywall"
  ELSE IF Holds(JS_REQUIRED_INDICATORS) THEN "javascript_required"
  ELSE IF Len(trim(test.content.s)) < 100 /\ ~Holds({<<"<","!","d","o","c","t","y","p","e">>})
  THEN "javascript_required"
  ELSE "unknown"

C20_TimeoutIsTimeout ==
  (/\ test.pc = "classified"
   /\ test.error = TimeoutCaseError
   /\ test.response = NoResponse)
  => test.result.type = "timeout"

\* C21: classifyError is total: for every error, response and content it
\* returns a kind of the enumeration with a message, and it never throws.
C21_ClassifyTotal ==
  test.pc = "classified" => test.result.ok /\ test.result.type \in ErrorTypes

\* C22: a call whose operation rejects with { code: 'ENOTFOUND' } returns a
\* failure envelope of kind dns_error with canRetry false after exactly one
\* invocation of the operation, and with the breaker enabled it records
\* exactly one failure for the url's domain.
C22_DnsScenario ==
  [][\A c \in CallIds :
       (/\ Finishes(c)
        /\ calls'[c].invoked >= 1
        /\ OutcomeAt(calls'[c].operation, 1) = Reject(ErrDns))
       => /\ calls'[c].ret.kind = "failure"
          /\ calls'[c].ret.error.type = "dns_error"
          /\ ~calls'[c].ret.error.canRetry
          /\ calls'[c].invoked = 1
          /\ options.enableCircuitBreaker
             => /\ Get(failures', calls'[c].domain) = Get(failures, calls'[c].domain) + 1
                /\ Get(lastFailure', calls'[c].domain) = now
                /\ \A d \in (DOMAIN failures) \ {calls'[c].domain} :
                     d \in DOMAIN failures' /\ failures'[d] = failures[d]]_vars

\* The first call of a handler, for x.com, has rejected with ENOTFOUND: one
\* invocation, a dns_error envelope, and a count of 1 for x.com.
C22_Witness ==
  \E c \in CallIds :
    /\ calls[c].pc = "done"
    /\ calls[c].operation.err = ErrDns
    /\ OutcomeAt(calls[c].operation, 1) = Reject(ErrDns)
    /\ calls[c].invoked = 1
    /\ calls[c].ret.kind = "failure"
    /\ calls[c].ret.error.type = "dns_error"
    /\ calls[c].domain = "x.com"
    /\ options.enableCircuitBreaker
    /\ Get(failures, "x.com") = 1
    /\ Get(lastFailure, "x.com") = now

\* The attempts of call c, among those its retry budget allows, on which its
\* operation resolved.
ResolvedAttempts(c) ==
  {n \in 1..(options.maxRetries + 1) :
     n <= calls[c].invoked /\ OutcomeAt(calls[c].operation, n).tag = "resolve"}

\* C23: a call returns { success: true, data: v } with metadata.domain equal
\* to the url's hostname if and only if it was admitted by the breaker and
\* its operation resolved with v on an attempt within the retry budget; in
\* every other case the envelope has success false and a structured error.
C23_SuccessIff ==
  \A c \in CallIds :
    calls[c].pc = "done"
    => IF ResolvedAttempts(c) # {}
       THEN /\ calls[c].ret.kind = "success"
            /\ \E n \in ResolvedAttempts(c) :
                 calls[c].ret.data = OutcomeAt(calls[c].operation, n).data
            /\ calls[c].ret.domain = calls[c].url.hostname
       ELSE /\ calls[c].ret.kind = "failure"
            /\ calls[c].ret.error.type \in ErrorTypes
            /\ calls[c].ret.error.canRetry \in BOOLEAN

\* With the breaker disabled, https://x.com/a has resolved with A on the second
\* attempt: a success envelope for x.com.
C23_Witness ==
  \E c \in CallIds :
    /\ calls[c].pc = "done"
    /\ ~options.enableCircuitBreaker
    /\ calls[c].url = UrlA
    /\ ResolvedAttempts(c) = {2}
    /\ calls[c].ret.kind = "success"
    /\ calls[c].ret.data = "A"
    /\ calls[c].ret.domain = "x.com"

\* The positions of the batch whose operation rejects with ENOTFOUND and
\* whose wrap call has come to its end.
DnsCallsEnded ==
  {k \in DOMAIN batch.items :
     /\ batch.items[k].operation.final = Reject(ErrDns)
     /\ k <= batch.i \/ k \in batch.settled \/ calls[k].pc = "done"}

\* C24: no breaker update is lost under interleaving: while the calls of a
\* batch run together on one domain and none of them succeeds, the domain's
\* failure count is the number of calls that have ended in a failure that
\* counts against the domain, so k such calls leave it exactly k higher.
C24_NoLostUpdate ==
  (/\ batch.pc \notin {"idle"}
   /\ \A k \in DOMAIN batch.items : batch.items[k].operation.final.tag = "reject")
  => Get(failures, "x.com") = Cardinality(DnsCallsEnded)

\* Three calls for x.com were in flight together, a rate-limited one between
\* two that ended in dns_error, and the count stands at 2 while the third is
\* still waiting to retry.
C24_Witness ==
  /\ batch.pc = "waiting"
  /\ batch.concurrency = 3
  /\ Len(batch.items) = 3
  /\ batch.items[1].operation.final = Reject(ErrDns)
  /\ batch.items[2].operation.final = Reject(ErrRateLimited)
  /\ batch.items[3].operation.final = Reject(ErrDns)
  /\ calls[2].pc = "backoff"
  /\ Get(failures, "x.com") = 2

\* C25: a call that is turned away because the breaker is open leaves the
\* domain's failure count and last-failure timestamp as they were.
C25_BlockedCallLeavesBreaker ==
  [][\A c \in CallIds :
       (Enters(c) /\ options.enableCircuitBreaker /\ ~canAttempt(calls'[c].domain))
       => failures' = failures /\ lastFailure' = lastFailure]_vars

\* C26: with the breaker enabled, the operation is never invoked for a domain
\* at a moment when canAttempt(domain) is false, the retry attempts of a call
\* that was admitted before the breaker opened included.
C26_NoInvocationWhileOpen ==
  [][\A c \in CallIds :
       (options.enableCircuitBreaker /\ calls'[c].invoked > calls[c].invoked)
       => canAttempt(calls'[c].domain)]_vars

\* C30: resetCircuitBreaker is last-write-wins against calls in flight: after
\* a reset of x.com the entry reflects only what completed after it, a count
\* equal to the failures recorded since the reset (since the latest success,
\* when one completed after it) and no entry when a success completed last,
\* never a count from before the reset.
C30_ResetLastWriteWins ==
  /\ Get(failures, "x.com") = test.sinceClear
  /\ test.sinceClear = 0 => "x.com" \notin DOMAIN failures

\* The reset found x.com at a count of 3 with both callers' calls in flight;
\* both have since ended in dns_error, and the count is 2.
C30_Witness ==
  /\ test.cleared = 3
  /\ test.endedAfter = 2
  /\ \A c \in {1, 2} : calls[c].pc = "done" /\ calls[c].ret.error.type = "dns_error"
  /\ Get(failures, "x.com") = 2

\* C27: wrapBatch returns in the end for every item list and every integer
\* concurrency, 0 included, when every operation settles in the end.
C27_BatchReturns == (batch.pc # "idle") ~> (batch.pc = "returned")

\* C28: a url that fails through scrapeUrls with a kind that counts against
\* its domain (dns_error, an HTTP 404) stays recorded: when the batch has
\* returned, the domain's failure count is higher than before by the number
\* of its urls in the batch.
C28_ScrapeFailureStaysRecorded ==
  batch.ret.returned
  => \A hostname \in {"dns-error.com", "not-found.com"} :
       Get(failures, hostname)
         = Cardinality({k \in DOMAIN batch.items : batch.items[k].url.hostname = hostname})

\* C29: once timeoutMs has passed since the last failure of a domain whose
\* count is at or above the threshold, wrap admits a call for it and invokes
\* the operation, with no trial state in between; a failure of that call that
\* counts against the domain blocks it again, for timeoutMs from that failure.
C29_ReopensAndBlocksAgain ==
  [][\A c \in CallIds :
       LET d == calls'[c].domain IN
       /\ (/\ Enters(c)
           /\ options.enableCircuitBreaker
           /\ Get(failures, d) >= failureThreshold
           /\ now - Get(lastFailure, d) > timeoutMs)
          => calls'[c].pc = "operation" /\ calls'[c].invoked = 1
       /\ (/\ Finishes(c)
           /\ options.enableCircuitBreaker
           /\ calls'[c].invoked >= 1
           /\ calls'[c].ret.kind = "failure"
           /\ calls'[c].ret.error.type \in {"http_error", "network_error", "dns_error"}
           /\ Get(failures, d) >= failureThreshold)
          => /\ Get(failures', d) = Get(failures, d) + 1
             /\ Get(lastFailure', d) = now
             /\ ~canAttempt(calls[c].domain)']_vars

\* The threshold was reached, the timeout passed, a further call was admitted
\* and failed: the count is 6, the last failure is that of the admitted call,
\* and the domain is blocked again.
C29_Witness ==
  \E c \in CallIds :
    /\ calls[c].pc = "done"
    /\ calls[c].invoked >= 1
    /\ calls[c].ret.error.type = "dns_error"
    /\ options.enableCircuitBreaker
    /\ Get(failures, calls[c].domain) = failureThreshold + 1
    /\ Get(lastFailure, calls[c].domain) = now
    /\ now > timeoutMs
    /\ ~canAttempt(calls[c].domain)

\* C31: with enableCircuitBreaker false, wrap neither consults nor changes the
\* breaker: a call is admitted and its operation invoked whatever the count
\* of its domain is, and no step of a call changes a failure count or a
\* last-failure timestamp.
C31_DisabledBreakerUntouched ==
  [][\A c \in CallIds :
       (~options.enableCircuitBreaker /\ calls'[c] # calls[c])
       => /\ failures' = failures
          /\ lastFailure' = lastFailure
          /\ Enters(c) => calls'[c].pc = "operation" /\ calls'[c].invoked = 1]_vars

\* A handler without the breaker has called for x.com while the count stood
\* at the threshold and no time had passed: the operation was invoked and
\* resolved, and the count is still at the threshold.
C31_Witness ==
  /\ ~options.enableCircuitBreaker
  /\ calls[1].pc = "done"
  /\ calls[1].domain = "x.com"
  /\ calls[1].invoked = 1
  /\ calls[1].ret.kind = "success"
  /\ Get(failures, "x.com") = failureThreshold
  /\ ~canAttempt("x.com")

\* C36: for a url that cannot be parsed wrap does not fail on that account:
\* 'unknown-domain' is its breaker key and its metadata.domain, and the
\* operation is invoked unless the breaker blocks 'unknown-domain'.
C36_UnparsableUrl ==
  [][\A c \in CallIds :
       /\ (Enters(c) /\ ~calls'[c].url.parsable)
          => /\ calls'[c].domain = "unknown-domain"
             /\ IF options.enableCircuitBreaker /\ ~canAttempt("unknown-domain")
                THEN calls'[c].invoked = 0 /\ calls'[c].pc = "done"
                ELSE calls'[c].invoked = 1 /\ calls'[c].pc = "operation"
       /\ (Finishes(c) /\ ~calls'[c].url.parsable)
          => /\ calls'[c].ret.kind \in {"success", "failure"}
             /\ calls'[c].ret.domain = "unknown-domain"
             /\ \A d \in (DOMAIN failures \cup DOMAIN failures') \ {"unknown-domain"} :
                  Get(failures', d) = Get(failures, d)]_vars

\* Two calls for a url that does not parse have failed with ENOTFOUND: the
\* envelope names 'unknown-domain', and the count of 'unknown-domain' is 2.
C36_Witness ==
  /\ calls[1].pc = "done"
  /\ calls[1].url = UrlUnparsable
  /\ calls[1].invoked = 1
  /\ calls[1].ret.kind = "failure"
  /\ calls[1].ret.error.type = "dns_error"
  /\ calls[1].ret.domain = "unknown-domain"
  /\ Get(failures, "unknown-domain") = 2

\* C32: resetCircuitBreaker(d) with a domain string d, the empty hostname ''
\* included, removes the entry of d only: the count of every other domain is
\* what it was.
C32_ResetOnlyThatDomain ==
  (test.pc = "checked" /\ test.given)
  => \A d \in (DOMAIN test.status) \ {test.domain} :
       d \in DOMAIN test.resetStatus /\ test.resetStatus[d] = test.status[d]

\* C33: in every state the breaker reaches, the failure-count map and the
\* last-failure map have the same domains and every stored count is at least
\* 1; an entry appears only with a recorded failure of a call for its domain,
\* and goes only with a success of such a call or with a reset.
C33_BreakerMapsAgree ==
  [][/\ DOMAIN failures' = DOMAIN lastFailure'
     /\ \A d \in DOMAIN failures' : failures'[d] >= 1
     /\ \A d \in (DOMAIN failures') \ (DOMAIN failures) :
          /\ failures'[d] = 1
          /\ \E c \in CallIds :
               Finishes(c) /\ calls'[c].domain = d /\ calls'[c].ret.kind = "failure"
     /\ \A d \in (DOMAIN failures) \ (DOMAIN failures') :
          \/ \E c \in CallIds :
               Finishes(c) /\ calls'[c].domain = d /\ calls'[c].ret.kind = "success"
          \/ calls' = calls]_vars

\* After a reset that found a count for x.com, two failures have been
\* recorded: both maps hold x.com and nothing else.
C33_Witness ==
  /\ test.cleared >= 1
  /\ DOMAIN failures = {"x.com"}
  /\ DOMAIN lastFailure = {"x.com"}
  /\ failures["x.com"] = 2

C35_AttemptsSequential ==
  [][\A c \in CallIds :
       /\ calls'[c].invoked > calls[c].invoked
          => /\ calls'[c].invoked = calls[c].invoked + 1
             /\ calls'[c].pc = "operation"
             /\ \/ Enters(c) /\ calls'[c].invoked = 1
                \/ /\ calls[c].pc = "backoff"
                   /\ calls[c].lastError # NoError
                   /\ calls[c].waits = calls[c].invoked
       /\ calls'[c].waits > calls[c].waits
          => /\ calls'[c].waits = calls[c].waits + 1
             /\ calls[c].pc = "operation"
             /\ calls'[c].pc = "backoff"
             /\ OutcomeAt(calls[c].operation, calls[c].invoked).tag = "reject"
             /\ calls[c].invoked <= options.maxRetries
       /\ Finishes(c)
          => /\ calls[c].pc # "backoff"
             /\ calls'[c].invoked >= 1 => calls'[c].waits = calls'[c].invoked - 1]_vars

\* A call has ended after three attempts and two waits.
C35_Witness ==
  \E c \in CallIds :
    /\ calls[c].pc = "done"
    /\ calls[c].invoked = 3
    /\ calls[c].waits = 2
    /\ calls[c].attempt = 2

\* list is the head of longer.
IsPrefix(list, longer) ==
  Len(list) <= Len(longer) /\ \A p \in DOMAIN list : longer[p] = list[p]

\* C37: in results and in errors every entry of an item of an earlier group
\* comes before every entry of an item of a later group: an entry is put at
\* the end of its list, by an item of the group in progress, when every item
\* of the groups before has settled, and the groups are taken in the order of
\* the input.  Within a group the entries come in the order of completion.
C37_GroupsInOrder ==
  [][batch.pc # "idle"
     => /\ IsPrefix(batch.results, batch'.results)
        /\ IsPrefix(batch.errors, batch'.errors)
        /\ batch'.i >= batch.i
        /\ (Len(batch'.results) + Len(batch'.errors) > Len(batch.results) + Len(batch.errors))
           => /\ Len(batch'.results) + Len(batch'.errors)
                   = Len(batch.results) + Len(batch.errors) + 1
              /\ \E k \in batch'.settled \ batch.settled :
                   /\ batch.i < k /\ k <= batch.i + batch.concurrency
                   /\ LET entry == [url |-> batch.items[k].url, result |-> calls[k].ret]
                      IN \/ batch'.results = Append(batch.results, entry)
                         \/ batch'.errors = Append(batch.errors, entry)
              /\ \A j \in 1..batch.i : calls[j].pc = "idle"]_vars

\* In a group of two the second item, which fails at once, has its entry in
\* errors before the first, which fails after a retry; the third item, of the
\* next group, comes after both.
C37_Witness ==
  /\ batch.concurrency = 2
  /\ Len(batch.items) = 3
  /\ batch.items[1].operation.final = Reject(ErrRateLimited)
  /\ batch.items[2].operation.final = Reject(ErrDns)
  /\ batch.items[3].operation.final = Reject(ErrDns)
  /\ batch.pc = "returned"
  /\ Len(batch.errors) = 3
  /\ batch.errors[1].result.error.type = "dns_error"
  /\ batch.errors[2].result.error.type = "rate_limited"
  /\ batch.errors[3].result.error.type = "dns_error"

\* C38: the success flag of the summary wrapBatch returns is true exactly
\* when at least one item succeeded: true when all items but one fail, false
\* for an empty batch and when every item fails.
C38_SuccessFlag ==
  batch.ret.returned
  => /\ batch.ret.success <=> (Succeeding(batch.items) # {})
     /\ batch.ret.success <=> (batch.ret.succeeded >= 1)
     /\ Len(batch.items) = 0 => ~batch.ret.success

\* A batch of three items of which one succeeds has returned with the flag
\* set.
C38_Witness ==
  /\ batch.ret.returned
  /\ Len(batch.items) = 3
  /\ Cardinality(Succeeding(batch.items)) = 1
  /\ batch.ret.failed = 2
  /\ batch.ret.success

\* The status the route is to answer with for each kind of error.
StatusForKind(kind) ==
  CASE kind = "http_error" -> 502
    [] kind = "paywall" -> 402
    [] kind = "javascript_required" -> 422
    [] kind = "network_error" -> 503
    [] kind = "dns_error" -> 503
    [] kind = "timeout" -> 504
    [] kind = "parsing_error" -> 502
    [] kind = "rate_limited" -> 429
    [] OTHER -> 500

\* C39: the response of the API route for a failed scrape carries the status
\* mapped from the kind of the error: 502, 402, 422, 503, 503, 504, 502, 429
\* and 500 for http_error, paywall, javascript_required, network_error,
\* dns_error, timeout, parsing_error, rate_limited and unknown.
C39_RouteStatusOfKind ==
  test.pc = "responded"
  => /\ test.http.sent
     /\ test.http.status = StatusForKind(test.http.error.type)

\* C40: the attempt recorded in the structured error built for a failed
\* attempt inside wrap is the index of that attempt: 0 for the first attempt,
\* k for the k-th retry.
C40_AttemptRecorded ==
  \A c \in CallIds :
    (calls[c].pc = "backoff" /\ IsScrapingError(calls[c].lastError))
    => calls[c].lastError.attempt = Num(calls[c].attempt)

====
